---------------------------- MODULE Spec2Model ----------------------------
(***************************************************************************)
(* State-machine model of the seq sequencer core: the event scheduler      *)
(* (sequencer/scheduler.rs), clips (sequencer/clip.rs), tracks and the     *)
(* track manager (sequencer/track.rs) and the trigger queue                *)
(* (sequencer/trigger.rs).  Each component has its own specification; the  *)
(* variables of the other components stay at their initial values.         *)
(***************************************************************************)
EXTENDS Integers, Sequences, FiniteSets, Bags, TLC

(***************************************************************************)
(* Bounds of the model.                                                    *)
(***************************************************************************)
MaxQueue == 3            \* events held by the scheduler queue
MaxNow == 150000         \* wall clock horizon, microseconds
ClipLength == 8          \* length_ticks the clip is created with
MaxLoopCount == 3        \* generate() is not explored past this loop_count
MaxNotes == 2            \* notes held by the clip
MaxTracks == 4           \* tracks of the track manager
MaxTriggers == 3         \* pending triggers
MaxBeat == 2             \* beats counted by the MIDI clock
MaxClips == 4             \* clip indices and totals given to FollowAction::resolve
MaxParts == 2             \* parts of the part manager
MaxScenes == 2            \* scenes of either scene manager
MaxPulses == 50          \* clock pulses counted by the external sync
MaxWindowSum == 24       \* nor past this many ticks in one run of generate() calls
MaxDrumTicks == 192      \* ticks a drum generator is asked for before a reset
MaxHits == 17            \* hits asked of generate_euclidean
MaxSongTicks == 400      \* position a song player is moved to by update()
MaxRepeats == 3          \* passes counted by a loop region
MaxSections == 3         \* section indices given to goto_section
MaxReceived == 2         \* messages waiting in the input's receiver
MaxPosition == 130       \* position_ticks asked of ticks_until
MaxSplitTicks == 30      \* ticks of a drum run whose hits are kept
MaxRecordTicks == 5      \* position a recorder is moved to by tick()
MaxRecorded == 1         \* notes held by a recorder
MaxSteps == 16           \* steps asked of generate_euclidean

(***************************************************************************)
(* Program constants.                                                      *)
(***************************************************************************)
DefaultTempo == 120      \* SequencerTiming::default().tempo
Ppqn == 24               \* SequencerTiming::default().ppqn
LookaheadMs == 50        \* SchedulerConfig::default().lookahead_ms
TempoMin == 20           \* set_tempo clamp, lower end
TempoMax == 300          \* set_tempo clamp, upper end
MicrosPerMinute == 60000000

\* Option::None of an integer-valued Option (no index and no instant is negative)
None == -1

(***************************************************************************)
(* Inputs the environment draws from.                                      *)
(***************************************************************************)
EventInputs == {<<0, 60>>, <<2, 60>>, <<2, 61>>, <<6, 60>>}  \* <<time_ticks, note>>
TempoInputs == {10, 60, 120}
SeekTicks == {0, 2, 3, 6}
Delays == {50000}
Windows == {0, 300000}

VARIABLES
    \* Scheduler
    queue,              \* BinaryHeap<ScheduledEvent>, as a bag
    tempo,              \* timing.tempo
    position_ticks,     \* timing.position_ticks
    position_micros,
    playing,
    start_time,         \* Option<Instant>: None or the wall clock at the anchor
    now,                \* the wall clock (Instant::now()), microseconds; it is
                        \* read only as start.elapsed(), so it is measured from
                        \* the instant of the latest anchoring
    polled,             \* what the latest poll()/poll_window() returned
    schedOp,            \* the latest scheduler operation, with its argument
    pollPos,            \* position_micros at the latest poll of this playing run
    frozenPos,          \* position_micros frozen by pause(), kept over resume()
    \* Clip
    mode,               \* ClipMode: [kind, n], n the count of LoopCount(n)
    state,              \* ClipState
    length_ticks,
    loop_start,
    loop_end,           \* 0 = use length
    notes,              \* Vec<ClipNote>, kept sorted by start_tick
    position,
    loop_count,
    reverse,
    panicked,           \* generate() panicked (overflow checks on, or x % 0)
    events,             \* what the latest Clip::generate returned
    initial,            \* position when the present run of generate() calls began
    window_sum,         \* ticks generated in the present run of generate() calls
    \* Track (one Track, owning the clip above once add_clip has run)
    channel,            \* config.channel
    transpose,          \* config.transpose
    swing,              \* config.swing, in hundredths
    velocity_scale,     \* config.velocity_scale, in hundredths
    velocity_offset,    \* config.velocity_offset
    note_min,           \* config.note_min
    note_max,           \* config.note_max
    track_state,        \* Track::state
    active_clip,        \* Option<usize>
    clip_count,         \* clips.len()
    has_generator,      \* generator.is_some()
    index,              \* Track::index
    base_tick,          \* base_tick of the latest generate_scheduled call
    generated,          \* what Track::generate returned inside that call
    scheduled,          \* what generate_scheduled returned
    sourced,            \* the events generator and clip gave Track::generate
    \* TrackManager
    tracks,             \* Vec<Track>, each by its TrackState
    has_solo,
    \* TriggerQueue
    trig_queue,         \* VecDeque<QueuedTrigger>
    default_quantize,
    phrase_bars,
    triggered,          \* what the latest TriggerQueue::poll returned
    trigOp,             \* the latest TriggerQueue operation, with its argument
    \* MidiClock and ExternalClockSync
    clock_state,        \* MidiClock::state
    pulse,              \* pulse within the beat
    beat,
    last_tick,          \* Option<Instant>: None, or 0 for some instant
    ramping,            \* tempo_ramp.is_some()
    emitted,            \* what the latest MidiClock method returned
    clkOp,              \* the latest MidiClock / ExternalClockSync operation
    paused_at,          \* <<pulse, beat>> of a Running clock when pause() stopped it
    enabled,            \* ExternalClockSync::enabled
    tick_count,         \* ExternalClockSync::tick_count
    running,            \* ExternalClockSync::running
    \* Arrangement: PartManager, SceneManager (arrangement/) and the
    \* sequencer's SceneManager (sequencer/trigger.rs)
    parts,              \* HashMap<String, Part>: name -> transition of the part
    part_order,         \* Vec<String>
    current_part,       \* Option<String>, as a sequence of length <= 1
    pending,            \* Option<PendingTransition>, as a sequence of length <= 1
    arr_scenes,         \* arrangement SceneManager::scenes, each by its launch mode
    arr_current_scene,  \* Option<usize>
    arr_pending,        \* Option<PendingSceneLaunch>, as a sequence of length <= 1
    scene_start_tick,
    seq_scenes,         \* sequencer SceneManager::scenes
    seq_current_scene,  \* Option<usize>
    cmd,                \* the latest manager command: <<name, argument, result>>
    \* FollowAction::resolve
    fa_action,          \* self
    fa_current,         \* current
    fa_total,           \* total
    fa_result,          \* what the latest resolve returned (Option<usize>)
    \* DrumGenerator, and the arguments and results of generate_euclidean
    config,             \* DrumGenerator::config
    voices,             \* DrumGenerator::voices: name -> DrumVoice
    current_step,
    current_bar,
    tick_accumulator,
    drum_run,           \* the hits <<absolute tick, note>> generate returned
                        \* since new() or reset(), while the patterns stood
    in_fill,
    genOp,              \* the latest DrumGenerator operation, with its argument
    eu_hits,
    eu_steps,
    eu_pattern,         \* DrumGenerator::generate_euclidean(eu_hits, eu_steps)
    eu_arp_pattern,     \* ArpeggioGenerator::generate_euclidean of the same
    \* SongPlayer
    song,               \* Option<Song>, as a sequence of length <= 1
    song_mode,          \* SongPlayer::mode
    song_position_ticks,
    current_section,
    loop_region,        \* Option<LoopRegion>, as a sequence of length <= 1
    player_beats_per_bar,
    songOp,             \* the latest SongPlayer call: <<name, argument, result>>
    \* MidiInput
    learn_active,       \* MidiLearnCapture::active
    learn_message,      \* MidiLearnCapture::message, a sequence of length <= 1
    cb_pc,              \* where the input callback is: idle, learn, sync, send
    cb_msg,             \* the message the callback holds
    receiver,           \* the channel from the callback to try_recv
    learn_hist,         \* since the latest start(): whether stop() came before
                        \* a message of a learnt kind, and the first such message
    learnOp,            \* the latest step of the callback or the control side
    \* QuantizeMode::ticks_until
    quant_timing,       \* the SequencerTiming asked about
    quant_mode,         \* the QuantizeMode asked
    quant_ticks,        \* what ticks_until returned, None once the timing moved
    \* MidiRecorder
    rec_state,          \* state
    rec_mode,           \* mode
    rec_notes,          \* notes
    active_notes,       \* active_notes, the values of the map
    rec_position,       \* position
    start_position,
    rec_loop_length,    \* loop_length
    rec_quantize,       \* quantize
    punch_region,       \* a sequence of length <= 1
    count_in_bars,
    count_in_remaining,
    channel_filter,
    rec_failed,         \* a call has panicked
    rec_held,           \* the keys whose active note has seen a tick()
    recOp               \* the latest call: note_on or note_off with its channel
                        \* and note, stop, or any other call

schedVars == <<queue, tempo, position_ticks, position_micros, playing,
               start_time, now, polled, schedOp, pollPos, frozenPos>>

clipVars == <<mode, state, length_ticks, loop_start, loop_end, notes, position,
              loop_count, reverse, panicked, events, initial, window_sum>>

trackVars == <<channel, transpose, swing, velocity_scale, velocity_offset,
               note_min, note_max, track_state, active_clip, clip_count,
               has_generator, index, base_tick, generated, scheduled,
               sourced>>

mgrVars == <<tracks, has_solo>>

trigVars == <<trig_queue, default_quantize, phrase_bars, triggered, trigOp>>

clockVars == <<clock_state, pulse, beat, last_tick, ramping, emitted, clkOp,
               paused_at, enabled, tick_count, running>>

arrVars == <<parts, part_order, current_part, pending, arr_scenes,
             arr_current_scene, arr_pending, scene_start_tick, seq_scenes,
             seq_current_scene, cmd>>

followVars == <<fa_action, fa_current, fa_total, fa_result>>

genVars == <<config, voices, current_step, current_bar, tick_accumulator,
            drum_run, in_fill, genOp, eu_hits, eu_steps, eu_pattern, eu_arp_pattern>>

songVars == <<song, song_mode, song_position_ticks, current_section,
             loop_region, player_beats_per_bar, songOp>>

learnVars == <<learn_active, learn_message, cb_pc, cb_msg, receiver,
              learn_hist, learnOp>>

quantVars == <<quant_timing, quant_mode, quant_ticks>>

recVars == <<rec_state, rec_mode, rec_notes, active_notes, rec_position,
            start_position, rec_loop_length, rec_quantize, punch_region,
            count_in_bars, count_in_remaining, channel_filter, rec_failed,
            rec_held, recOp>>

vars == <<schedVars, clipVars, trackVars, mgrVars, trigVars, clockVars,
          arrVars, followVars, genVars, songVars, learnVars, quantVars,
          recVars>>

\* What an operation of one component leaves alone.
SchedOnly == UNCHANGED <<clipVars, trackVars, mgrVars, trigVars, clockVars,
                         arrVars, followVars, genVars, songVars, learnVars,
                         quantVars, recVars>>

ClipOnly == UNCHANGED <<schedVars, trackVars, mgrVars, trigVars, clockVars,
                        arrVars, followVars, genVars, songVars, learnVars,
                        quantVars, recVars>>

TrackOnly == UNCHANGED <<schedVars, mgrVars, trigVars, clockVars, arrVars,
                         followVars, genVars, songVars, learnVars, quantVars,
                         recVars>>

MgrOnly == UNCHANGED <<schedVars, clipVars, trackVars, trigVars, clockVars,
                       arrVars, followVars, genVars, songVars, learnVars,
                       quantVars, recVars>>

TrigOnly == UNCHANGED <<schedVars, clipVars, trackVars, mgrVars, clockVars,
                        arrVars, followVars, genVars, songVars, learnVars,
                        quantVars, recVars>>

ClockOnly == UNCHANGED <<schedVars, clipVars, trackVars, mgrVars, trigVars,
                         arrVars, followVars, genVars, songVars, learnVars,
                         quantVars, recVars>>

ArrOnly == UNCHANGED <<schedVars, clipVars, trackVars, mgrVars, trigVars,
                       clockVars, followVars, genVars, songVars, learnVars,
                       quantVars, recVars>>

SceneTrigOnly == UNCHANGED <<schedVars, clipVars, trackVars, mgrVars,
                             clockVars, followVars, genVars, songVars,
                             learnVars, quantVars, recVars>>

FollowOnly == UNCHANGED <<schedVars, clipVars, trackVars, mgrVars, trigVars,
                          clockVars, arrVars, genVars, songVars, learnVars,
                          quantVars, recVars>>

GenOnly == UNCHANGED <<schedVars, clipVars, trackVars, mgrVars, trigVars,
                       clockVars, arrVars, followVars, songVars, learnVars,
                       quantVars, recVars>>

SongOnly == UNCHANGED <<schedVars, clipVars, trackVars, mgrVars, trigVars,
                        clockVars, arrVars, followVars, genVars, learnVars,
                        quantVars, recVars>>

LearnOnly == UNCHANGED <<schedVars, clipVars, trackVars, mgrVars, trigVars,
                         clockVars, arrVars, followVars, genVars, songVars,
                         quantVars, recVars>>

\* What the callback's clock sync step leaves alone.
LearnSyncOnly == UNCHANGED <<schedVars, clipVars, trackVars, mgrVars,
                             trigVars, arrVars, followVars, genVars,
                             songVars, quantVars, recVars>>

QuantOnly == UNCHANGED <<schedVars, clipVars, trackVars, mgrVars, trigVars,
                         clockVars, arrVars, followVars, genVars, songVars,
                         learnVars, recVars>>

RecOnly == UNCHANGED <<schedVars, clipVars, trackVars, mgrVars, trigVars,
                       clockVars, arrVars, followVars, genVars, songVars,
                       learnVars, quantVars>>

(***************************************************************************)
(* SequencerTiming conversions.  The code computes in f64 and truncates;   *)
(* for the ticks, tempos and times of this model the truncated f64 result  *)
(* equals the integer quotient below.                                      *)
(***************************************************************************)
ticks_to_micros(t, ticks) == (ticks * MicrosPerMinute) \div (t * Ppqn)

micros_to_ticks(t, micros) == (micros * t * Ppqn) \div MicrosPerMinute

Clamp(x, lo, hi) == IF x < lo THEN lo ELSE IF x > hi THEN hi ELSE x

(***************************************************************************)
(* ScheduledEvent constructors.                                            *)
(***************************************************************************)
note_on(time_ticks, ch, note, velocity) ==
    [time_micros |-> 0, time_ticks |-> time_ticks, channel |-> ch,
     message_type |-> "NoteOn", data1 |-> note, data2 |-> velocity,
     track_index |-> None]

note_off(time_ticks, ch, note) ==
    [time_micros |-> 0, time_ticks |-> time_ticks, channel |-> ch,
     message_type |-> "NoteOff", data1 |-> note, data2 |-> 0,
     track_index |-> None]

with_track(ev, track_index) == [ev EXCEPT !.track_index = track_index]

(***************************************************************************)
(* The heap.  impl Ord for ScheduledEvent reverses the comparison of       *)
(* time_micros, so the top of the max-heap is an event of least            *)
(* time_micros; which one among equals is up to the heap's layout.         *)
(***************************************************************************)
PeekLatest(q) ==
    {e \in BagToSet(q) : \A o \in BagToSet(q) : o.time_micros <= e.time_micros}

Peek(q) ==
    {e \in BagToSet(q) : \A o \in BagToSet(q) : e.time_micros <= o.time_micros}

\* The while-let loop of poll()/poll_window(): the set of possible
\* <<events returned, queue left>>.
RECURSIVE PopDue(_, _)
PopDue(q, target_time) ==
    IF q = EmptyBag THEN {<<<< >>, q>>}
    ELSE UNION {
        IF e.time_micros <= target_time
        THEN {<<<<e>> \o r[1], r[2]>> :
                  r \in PopDue(q (-) SetToBag({e}), target_time)}
        ELSE {<<<< >>, q>>} : e \in Peek(q)}

\* recalculate_event_times: drain, recompute, push back.
KeepEventTimes(q, t) == q

recalculate_event_times(q, t) ==
    BagOfAll(LAMBDA e : [e EXCEPT !.time_micros = ticks_to_micros(t, e.time_ticks)], q)

\* The filter of seek(): events at or after the seek position stay.
SeekKeepsStrictlyLater(q, ticks) ==
    [e \in {x \in BagToSet(q) : x.time_ticks > ticks} |-> q[e]]

SeekFilter(q, ticks) ==
    [e \in {x \in BagToSet(q) : x.time_ticks >= ticks} |-> q[e]]

\* update_position: the position the wall clock gives, if anchored.
ElapsedMicros == IF start_time # None THEN now - start_time ELSE position_micros

ElapsedTicks ==
    IF start_time # None THEN micros_to_ticks(tempo, now - start_time)
    ELSE position_ticks

(***************************************************************************)
(* Scheduler operations.                                                   *)
(***************************************************************************)
SchedInit ==
    /\ queue = EmptyBag
    /\ tempo = DefaultTempo
    /\ position_ticks = 0
    /\ position_micros = 0
    /\ playing = FALSE
    /\ start_time = None
    /\ now = 0
    /\ polled = << >>
    /\ schedOp = <<"new", 0>>
    /\ pollPos = None
    /\ frozenPos = None

Schedule ==
    \E in \in EventInputs :
        /\ BagCardinality(queue) < MaxQueue
        /\ LET event == note_on(in[1], 0, in[2], 100) IN
           queue' = queue (+) SetToBag(
               {[event EXCEPT !.time_micros = ticks_to_micros(tempo, in[1])]})
        /\ schedOp' = <<"schedule", 0>>
        /\ SchedOnly
        /\ polled' = << >>
        /\ UNCHANGED <<tempo, position_ticks, position_micros, playing,
                       start_time, now, pollPos, frozenPos>>

SetTempo ==
    \E t \in TempoInputs :
        /\ position_micros' = IF playing THEN ElapsedMicros ELSE position_micros
        /\ position_ticks' = IF playing THEN ElapsedTicks ELSE position_ticks
        /\ tempo' = Clamp(t, TempoMin, TempoMax)
        /\ queue' = recalculate_event_times(queue, tempo')
        /\ schedOp' = <<"set_tempo", 0>>
        /\ SchedOnly
        /\ polled' = << >>
        /\ UNCHANGED <<playing, start_time, now, pollPos, frozenPos>>

Start ==
    /\ now' = 0
    /\ start_time' = now'
    /\ playing' = TRUE
    /\ schedOp' = <<"start", 0>>
    /\ SchedOnly
    /\ pollPos' = None
    /\ frozenPos' = None
    /\ polled' = << >>
    /\ UNCHANGED <<queue, tempo, position_ticks, position_micros>>

Stop ==
    /\ playing' = FALSE
    /\ start_time' = None
    /\ position_micros' = 0
    /\ position_ticks' = 0
    /\ schedOp' = <<"stop", 0>>
    /\ SchedOnly
    /\ pollPos' = None
    /\ frozenPos' = None
    /\ polled' = << >>
    /\ now' = 0
    /\ UNCHANGED <<queue, tempo>>

Pause ==
    /\ IF playing
       THEN /\ position_micros' = ElapsedMicros
            /\ position_ticks' = ElapsedTicks
            /\ playing' = FALSE
            /\ start_time' = None
            /\ now' = 0
            /\ frozenPos' = position_micros'
       ELSE UNCHANGED <<position_micros, position_ticks, playing, start_time,
                        now, frozenPos>>
    /\ schedOp' = <<"pause", 0>>
    /\ SchedOnly
    /\ pollPos' = None
    /\ polled' = << >>
    /\ UNCHANGED <<queue, tempo>>

Resume ==
    /\ IF ~playing
       THEN /\ now' = 0
            /\ start_time' = now'
            /\ playing' = TRUE
       ELSE UNCHANGED <<now, start_time, playing>>
    /\ schedOp' = <<"resume", 0>>
    /\ SchedOnly
    /\ pollPos' = None
    /\ polled' = << >>
    /\ UNCHANGED <<queue, tempo, position_ticks, position_micros, frozenPos>>

\* The body shared by poll() and poll_window(window_micros).
PollBody(window_micros) ==
    IF ~playing
    THEN /\ polled' = << >>
         /\ UNCHANGED <<queue, position_micros, position_ticks, pollPos>>
    ELSE /\ position_micros' = ElapsedMicros
         /\ position_ticks' = ElapsedTicks
         /\ \E r \in PopDue(queue, position_micros' + window_micros) :
                /\ polled' = r[1]
                /\ queue' = r[2]
         /\ pollPos' = position_micros'

Poll ==
    /\ PollBody(LookaheadMs * 1000)
    /\ schedOp' = <<"poll", 0>>
    /\ SchedOnly
    /\ UNCHANGED <<tempo, playing, start_time, now, frozenPos>>

PollWindow ==
    \E w \in Windows :
        /\ PollBody(w)
        /\ schedOp' = <<"poll", 0>>
        /\ SchedOnly
        /\ UNCHANGED <<tempo, playing, start_time, now, frozenPos>>

Clear ==
    /\ queue' = EmptyBag
    /\ schedOp' = <<"clear", 0>>
    /\ SchedOnly
    /\ polled' = << >>
    /\ UNCHANGED <<tempo, position_ticks, position_micros, playing, start_time,
                   now, pollPos, frozenPos>>

\* A seek whose resume() reads the position off the new wall clock anchor.
SeekThenUpdate ==
    \E ticks \in SeekTicks :
        /\ position_ticks' = IF playing THEN 0 ELSE ticks
        /\ position_micros' = IF playing THEN 0
                              ELSE ticks_to_micros(tempo, ticks)
        /\ queue' = SeekFilter(queue, ticks)
        /\ now' = IF playing THEN 0 ELSE now
        /\ start_time' = IF playing THEN now' ELSE start_time
        /\ schedOp' = <<"seek", ticks>>
        /\ SchedOnly
        /\ pollPos' = None
        /\ frozenPos' = None
        /\ polled' = << >>
        /\ UNCHANGED <<tempo, playing>>

Seek ==
    \E ticks \in SeekTicks :
        /\ position_ticks' = ticks
        /\ position_micros' = ticks_to_micros(tempo, ticks)
        /\ queue' = SeekFilter(queue, ticks)
        /\ now' = IF playing THEN 0 ELSE now
        /\ start_time' = IF playing THEN now' ELSE start_time
        /\ schedOp' = <<"seek", ticks>>
        /\ SchedOnly
        \* a seek to a later position keeps the run of polls going
        /\ pollPos' = IF playing /\ ticks >= ElapsedTicks THEN pollPos ELSE None
        /\ frozenPos' = None
        /\ polled' = << >>
        /\ UNCHANGED <<tempo, playing>>

\* The wall clock advances.
Elapse ==
    \E d \in Delays :
        /\ start_time # None
        /\ now + d <= MaxNow
        /\ now' = now + d
        /\ SchedOnly
        /\ UNCHANGED <<queue, tempo, position_ticks, position_micros, playing,
                       start_time, polled, schedOp, pollPos, frozenPos>>

(***************************************************************************)
(* Clip (sequencer/clip.rs).  The clip is Clip::new(name, ClipLength): a   *)
(* Sequenced clip.  Arithmetic is u64 with overflow checks: a subtraction  *)
(* below zero panics, as does a remainder by zero.                         *)
(***************************************************************************)
ClipModes ==
    {[kind |-> "OneShot", n |-> 0], [kind |-> "Loop", n |-> 0],
     [kind |-> "LoopCount", n |-> 2], [kind |-> "PingPong", n |-> 0]}

LoopPointInputs == {<<0, 0>>, <<2, 6>>, <<4, 4>>, <<6, 2>>, <<2, 12>>}  \* <<start, end>>
ClipWindows == {1, 3, 4, 20}                                  \* ticks_to_generate
NoteInputs ==
    {[start_tick |-> 0, duration |-> 4, note |-> 60, velocity |-> 100],
     [start_tick |-> 2, duration |-> 2, note |-> 60, velocity |-> 90],
     [start_tick |-> 5, duration |-> 2, note |-> 127, velocity |-> 1]}

Min(a, b) == IF a < b THEN a ELSE b

ClipInit ==
    /\ mode = [kind |-> "Loop", n |-> 0]
    /\ state = "Stopped"
    /\ length_ticks = ClipLength
    /\ loop_start = 0
    /\ loop_end = 0
    /\ notes = << >>
    /\ position = 0
    /\ loop_count = 0
    /\ reverse = FALSE
    /\ panicked = FALSE
    /\ events = << >>
    /\ initial = 0
    /\ window_sum = 0

effective_loop_end == IF loop_end = 0 THEN length_ticks ELSE loop_end

\* MidiEvent::new
MidiEvent(note, velocity, start_tick, duration_ticks) ==
    [note |-> note, velocity |-> velocity, start_tick |-> start_tick,
     duration_ticks |-> duration_ticks, channel |-> 0]

\* generate_sequenced: [events, panicked].  The notes are visited in order;
\* in reverse the mirrored start loop_end - start_tick - duration may
\* underflow.
RECURSIVE sequenced_from(_, _, _)
sequenced_from(i, ticks, le) ==
    IF i > Len(notes) THEN [events |-> << >>, panicked |-> FALSE]
    ELSE LET n == notes[i] IN
         IF reverse /\ le < n.start_tick + n.duration
         THEN [events |-> << >>, panicked |-> TRUE]
         ELSE LET note_start == IF reverse THEN le - n.start_tick - n.duration
                                ELSE n.start_tick
                  rest == sequenced_from(i + 1, ticks, le)
                  here == IF /\ note_start >= loop_start /\ note_start < le
                             /\ note_start >= position
                             /\ note_start < position + ticks
                          THEN <<MidiEvent(n.note, n.velocity,
                                           note_start - position, n.duration)>>
                          ELSE << >>
              IN [events |-> here \o rest.events, panicked |-> rest.panicked]

generate_sequenced(ticks, le) == sequenced_from(1, ticks, le)

\* advance_position: the fields it leaves, and whether it panicked.
advance_position(ticks, le) ==
    LET cur == [position |-> position, state |-> state,
                loop_count |-> loop_count, reverse |-> reverse,
                panicked |-> FALSE]
        panic == [cur EXCEPT !.panicked = TRUE]
    IN
    IF le < loop_start THEN panic             \* loop_end - self.loop_start
    ELSE
    LET loop_length == le - loop_start
        p == position + ticks
        wrapped == loop_start + ((p - loop_start) % loop_length)
        looped ==
            CASE mode.kind = "OneShot" ->
                     [cur EXCEPT !.state = "Stopped", !.position = 0]
              [] mode.kind = "Loop" ->
                     IF loop_length = 0 THEN [panic EXCEPT !.position = p]
                     ELSE [cur EXCEPT !.position = wrapped,
                                      !.loop_count = loop_count + 1]
              [] mode.kind = "LoopCount" ->
                     IF loop_count + 1 >= mode.n
                     THEN [cur EXCEPT !.loop_count = loop_count + 1,
                                      !.state = "Stopped", !.position = 0]
                     ELSE IF loop_length = 0
                          THEN [panic EXCEPT !.position = p,
                                             !.loop_count = loop_count + 1]
                          ELSE [cur EXCEPT !.loop_count = loop_count + 1,
                                           !.position = wrapped]
              [] mode.kind = "PingPong" ->
                     IF p - le > le THEN [panic EXCEPT !.reverse = TRUE, !.position = p]
                     ELSE [cur EXCEPT !.reverse = TRUE,
                                      !.position = le - (p - le),
                                      !.loop_count = loop_count + 1]
    IN
    IF reverse
    THEN IF position < ticks
         THEN IF mode.kind = "PingPong"
              THEN [cur EXCEPT !.reverse = FALSE,
                               !.position = loop_start + (ticks - position)]
              ELSE IF ticks - position > le THEN panic
                   ELSE [cur EXCEPT !.position = le - (ticks - position)]
         ELSE [cur EXCEPT !.position = position - ticks]
    ELSE IF p >= le
         THEN IF ~looped.panicked /\ looped.state = "Stopping"
              THEN [looped EXCEPT !.state = "Stopped", !.position = 0]
              ELSE looped
         ELSE [cur EXCEPT !.position = p]

\* Clip::generate(context) with context.ticks_to_generate = ticks.
ClipGenerate(ticks) ==
    IF state # "Playing" /\ state # "Stopping"
    THEN /\ events' = << >>
         /\ UNCHANGED <<mode, state, length_ticks, loop_start, loop_end, notes,
                        position, loop_count, reverse, panicked, initial,
                        window_sum>>
    ELSE LET le == effective_loop_end
             seq == generate_sequenced(ticks, le)
             adv == advance_position(ticks, le)
         IN IF seq.panicked
            THEN /\ panicked' = TRUE
                 /\ events' = << >>
                 /\ UNCHANGED <<mode, state, length_ticks, loop_start,
                                loop_end, notes, position, loop_count, reverse,
                                initial, window_sum>>
            ELSE /\ panicked' = adv.panicked
                 /\ events' = IF adv.panicked THEN << >> ELSE seq.events
                 /\ position' = adv.position
                 /\ state' = adv.state
                 /\ loop_count' = adv.loop_count
                 /\ reverse' = adv.reverse
                 /\ window_sum' = window_sum + ticks
                 /\ UNCHANGED <<mode, length_ticks, loop_start, loop_end,
                                notes, initial>>

\* A new run of generate() calls starts from the position the operation left.
NewRun ==
    /\ initial' = position'
    /\ window_sum' = 0
    /\ events' = << >>

Generate ==
    \E ticks \in ClipWindows :
        /\ ~panicked
        /\ loop_count < MaxLoopCount
        /\ window_sum + ticks <= MaxWindowSum
        /\ ClipGenerate(ticks)
        /\ ClipOnly

Play ==
    /\ ~panicked
    /\ state' = "Playing"
    /\ UNCHANGED <<mode, length_ticks, loop_start, loop_end, notes, position,
                   loop_count, reverse, panicked>>
    /\ NewRun
    /\ ClipOnly

ClipStop ==
    /\ ~panicked
    /\ state' = "Stopped"
    /\ position' = 0
    /\ loop_count' = 0
    /\ reverse' = FALSE
    /\ UNCHANGED <<mode, length_ticks, loop_start, loop_end, notes, panicked>>
    /\ NewRun
    /\ ClipOnly

StopAtEnd ==
    /\ ~panicked
    /\ state' = IF state = "Playing" THEN "Stopping" ELSE state
    /\ UNCHANGED <<mode, length_ticks, loop_start, loop_end, notes, position,
                   loop_count, reverse, panicked>>
    /\ NewRun
    /\ ClipOnly

SetMode ==
    \E m \in ClipModes :
        /\ ~panicked
        /\ mode' = m
        /\ UNCHANGED <<state, length_ticks, loop_start, loop_end, notes,
                       position, loop_count, reverse, panicked>>
        /\ NewRun
        /\ ClipOnly

SetLoopPoints ==
    \E lp \in LoopPointInputs :
        /\ ~panicked
        /\ loop_start' = Min(lp[1], length_ticks)
        /\ loop_end' = IF lp[2] = 0 THEN 0 ELSE Min(lp[2], length_ticks)
        /\ UNCHANGED <<mode, state, length_ticks, notes, position, loop_count,
                       reverse, panicked>>
        /\ NewRun
        /\ ClipOnly

\* add_note: push, then a stable sort by start_tick.
insert_by_start(seq, n) ==
    LET k == Cardinality({i \in 1..Len(seq) : seq[i].start_tick <= n.start_tick})
    IN SubSeq(seq, 1, k) \o <<n>> \o SubSeq(seq, k + 1, Len(seq))

AddNote ==
    \E n \in NoteInputs :
        /\ ~panicked
        /\ Len(notes) < MaxNotes
        /\ notes' = insert_by_start(notes, n)
        /\ UNCHANGED <<mode, state, length_ticks, loop_start, loop_end,
                       position, loop_count, reverse, panicked>>
        /\ NewRun
        /\ ClipOnly

ClipNext ==
    \/ Generate
    \/ Play
    \/ ClipStop
    \/ StopAtEnd
    \/ SetMode
    \/ SetLoopPoints

\* The clip with static notes added to it.
ClipNotesNext ==
    \/ Generate
    \/ Play
    \/ ClipStop
    \/ StopAtEnd
    \/ SetMode
    \/ SetLoopPoints
    \/ AddNote

(***************************************************************************)
(* Track (sequencer/track.rs).  Track::generate runs the generator, then   *)
(* the active clip, passes every event through process_event and applies   *)
(* the swing; generate_scheduled turns each event into a NoteOn and a      *)
(* NoteOff.  The generator is any Generator: what it returns is drawn from *)
(* GeneratorOutputs.                                                       *)
(***************************************************************************)
GeneratorOutputs ==
    {<< >>,
     <<MidiEvent(60, 100, 0, 4)>>,
     <<MidiEvent(64, 80, 13, 6), MidiEvent(60, 100, 0, 4)>>,
     <<MidiEvent(60, 100, 0, 4), MidiEvent(120, 127, 2, 1)>>}
TransposeInputs == {12, -100}
ChannelInputs == {20}
SwingInputs == {50}                   \* hundredths
BaseTicks == {96}
TrackWindows == {4}
MaxChannel == 15
MaxTranspose == 48
MaxNote == 127

TrackInit ==
    /\ channel = 0
    /\ transpose = 0
    /\ swing = 0
    /\ velocity_scale = 100
    /\ velocity_offset = 0
    /\ note_min = 0
    /\ note_max = MaxNote
    /\ track_state = "Active"
    /\ active_clip = None
    /\ clip_count = 0
    /\ has_generator = FALSE
    /\ index = 3
    /\ base_tick = 0
    /\ generated = << >>
    /\ scheduled = << >>
    /\ sourced = << >>

\* A process_event that clamps the transposed note into the MIDI range.
ClampNote(event) ==
    LET transposed == Clamp(event.note + transpose, 0, MaxNote)
        scaled == ((event.velocity * velocity_scale) \div 100) + velocity_offset
    IN IF transposed < note_min \/ transposed > note_max THEN << >>
       ELSE <<[event EXCEPT !.note = transposed,
                            !.velocity = Clamp(scaled, 1, MaxNote),
                            !.channel = channel]>>

\* process_event: << >> for a dropped event, else the one processed event.
process_event(event) ==
    LET transposed == event.note + transpose
        scaled == ((event.velocity * velocity_scale) \div 100) + velocity_offset
    IN IF transposed < 0 \/ transposed > MaxNote THEN << >>
       ELSE IF transposed < note_min \/ transposed > note_max THEN << >>
       ELSE <<[event EXCEPT !.note = transposed,
                            !.velocity = Clamp(scaled, 1, MaxNote),
                            !.channel = channel]>>

RECURSIVE process_all(_)
process_all(evs) ==
    IF evs = << >> THEN << >>
    ELSE process_event(Head(evs)) \o process_all(Tail(evs))

apply_swing(tick, ppqn) ==
    IF swing = 0 THEN tick
    ELSE LET half_beat == ppqn \div 2
             tick_in_beat == tick % ppqn
         IN IF tick_in_beat >= half_beat
            THEN tick + ((half_beat * swing) \div 200)
            ELSE tick

\* The loop of generate_scheduled over the events of Track::generate.
NoteOffAtStart(evs, base) ==
    [i \in 1..(2 * Len(evs)) |->
        LET event == evs[(i + 1) \div 2]
            start_tick == base + event.start_tick
        IN IF i % 2 = 1
           THEN with_track(note_on(start_tick, event.channel, event.note,
                                   event.velocity), index)
           ELSE with_track(note_off(start_tick, event.channel, event.note), index)]

RECURSIVE to_scheduled(_, _)
to_scheduled(evs, base) ==
    IF evs = << >> THEN << >>
    ELSE LET event == Head(evs)
             start_tick == base + event.start_tick
             end_tick == start_tick + event.duration_ticks
         IN <<with_track(note_on(start_tick, event.channel, event.note,
                                 event.velocity), index),
              with_track(note_off(end_tick, event.channel, event.note), index)>>
            \o to_scheduled(Tail(evs), base)

\* Track::generate_scheduled(context, base) with ticks_to_generate = ticks
\* and gen the events the generator, if any, returns.
TrackGenerate(ticks, base, gen) ==
    /\ base_tick' = base
    /\ IF track_state = "Muted"
       THEN /\ generated' = << >>
            /\ scheduled' = << >>
            /\ sourced' = << >>
            /\ UNCHANGED clipVars
       ELSE LET from_gen == IF has_generator THEN process_all(gen) ELSE << >>
                with_clip == active_clip # None /\ active_clip < clip_count
            IN /\ IF with_clip THEN ClipGenerate(ticks) ELSE UNCHANGED clipVars
               /\ LET all == from_gen \o (IF with_clip THEN process_all(events')
                                          ELSE << >>)
                      swung == [k \in 1..Len(all) |->
                                   [all[k] EXCEPT !.start_tick =
                                        apply_swing(all[k].start_tick, Ppqn)]]
                  IN IF panicked'
                     THEN /\ generated' = << >>
                          /\ scheduled' = << >>
                          /\ sourced' = << >>
                     ELSE /\ generated' = swung
                          /\ scheduled' = to_scheduled(swung, base)
                          /\ sourced' = (IF has_generator THEN gen ELSE << >>)
                                         \o (IF with_clip THEN events'
                                             ELSE << >>)

GenerateScheduled ==
    \E ticks \in TrackWindows, base \in BaseTicks, gen \in GeneratorOutputs :
        /\ ~panicked
        /\ loop_count < MaxLoopCount
        /\ window_sum + ticks <= MaxWindowSum
        /\ has_generator \/ gen = << >>
        /\ TrackGenerate(ticks, base, gen)
        /\ UNCHANGED <<channel, transpose, swing, velocity_scale,
                       velocity_offset, note_min, note_max, track_state,
                       active_clip, clip_count, has_generator, index>>
        /\ TrackOnly

TrackQuiet ==
    /\ base_tick' = 0
    /\ generated' = << >>
    /\ scheduled' = << >>
    /\ sourced' = << >>

SetGenerator ==
    /\ ~panicked
    /\ has_generator' = TRUE
    /\ TrackQuiet
    /\ UNCHANGED <<channel, transpose, swing, velocity_scale, velocity_offset,
                   note_min, note_max, track_state, active_clip, clip_count,
                   index>>
    /\ UNCHANGED clipVars
    /\ TrackOnly

AddClip ==
    /\ ~panicked
    /\ clip_count = 0
    /\ clip_count' = clip_count + 1
    /\ TrackQuiet
    /\ UNCHANGED <<channel, transpose, swing, velocity_scale, velocity_offset,
                   note_min, note_max, track_state, active_clip, has_generator,
                   index>>
    /\ UNCHANGED clipVars
    /\ TrackOnly

SetActiveClip ==
    \E idx \in {None, 0, 1} :
        /\ ~panicked
        /\ active_clip' = IF idx = None THEN None
                          ELSE IF idx < clip_count THEN idx ELSE active_clip
        /\ TrackQuiet
        /\ UNCHANGED <<channel, transpose, swing, velocity_scale,
                       velocity_offset, note_min, note_max, track_state,
                       clip_count, has_generator, index>>
        /\ UNCHANGED clipVars
        /\ TrackOnly

SetTranspose ==
    \E t \in TransposeInputs :
        /\ ~panicked
        /\ transpose' = Clamp(t, -MaxTranspose, MaxTranspose)
        /\ TrackQuiet
        /\ UNCHANGED <<channel, swing, velocity_scale, velocity_offset,
                       note_min, note_max, track_state, active_clip,
                       clip_count, has_generator, index>>
        /\ UNCHANGED clipVars
        /\ TrackOnly

SetChannel ==
    \E c \in ChannelInputs :
        /\ ~panicked
        /\ channel' = Min(c, MaxChannel)
        /\ TrackQuiet
        /\ UNCHANGED <<transpose, swing, velocity_scale, velocity_offset,
                       note_min, note_max, track_state, active_clip,
                       clip_count, has_generator, index>>
        /\ UNCHANGED clipVars
        /\ TrackOnly

SetSwing ==
    \E sw \in SwingInputs :
        /\ ~panicked
        /\ swing' = Clamp(sw, 0, 100)
        /\ TrackQuiet
        /\ UNCHANGED <<channel, transpose, velocity_scale, velocity_offset,
                       note_min, note_max, track_state, active_clip,
                       clip_count, has_generator, index>>
        /\ UNCHANGED clipVars
        /\ TrackOnly

TrackToggleMute ==
    /\ ~panicked
    /\ track_state' = IF track_state = "Muted" THEN "Active" ELSE "Muted"
    /\ TrackQuiet
    /\ UNCHANGED <<channel, transpose, swing, velocity_scale, velocity_offset,
                   note_min, note_max, active_clip, clip_count, has_generator,
                   index>>
    /\ UNCHANGED clipVars
    /\ TrackOnly

TrackNext ==
    \/ GenerateScheduled
    \/ SetGenerator
    \/ AddClip
    \/ SetActiveClip
    \/ SetTranspose
    \/ SetChannel
    \/ SetSwing
    \/ TrackToggleMute
    \/ AddNote
    \/ Play

(***************************************************************************)
(* TrackManager (sequencer/track.rs).  Only the TrackState of each track   *)
(* bears on the routing; indices are 0-based as in the code.               *)
(***************************************************************************)
TrackStates == {"Active", "Muted", "Soloed"}

MgrInit ==
    /\ tracks = << >>
    /\ has_solo = FALSE

is_muted(i) == tracks[i + 1] = "Muted"

is_soloed(i) == tracks[i + 1] = "Soloed"

\* update_solo_state, over the tracks as the calling method leaves them.
KeepSoloFlag(ts) == has_solo

update_solo_state(ts) == \E k \in 1..Len(ts) : ts[k] = "Soloed"

should_output(i) ==
    IF i < Len(tracks)
    THEN IF is_muted(i) THEN FALSE
         ELSE IF has_solo THEN is_soloed(i)
         ELSE TRUE
    ELSE FALSE

AddTrack ==
    /\ Len(tracks) < MaxTracks
    /\ tracks' = Append(tracks, "Active")
    /\ UNCHANGED has_solo
    /\ MgrOnly

SetTrackState ==
    \E i \in 0..MaxTracks, st \in TrackStates :
        /\ IF i < Len(tracks)
           THEN /\ tracks' = [tracks EXCEPT ![i + 1] = st]
                /\ has_solo' = update_solo_state(tracks')
           ELSE UNCHANGED <<tracks, has_solo>>
        /\ MgrOnly

ToggleMute ==
    \E i \in 0..MaxTracks :
        /\ IF i < Len(tracks)
           THEN /\ tracks' = [tracks EXCEPT ![i + 1] =
                                 IF @ = "Muted" THEN "Active" ELSE "Muted"]
                /\ has_solo' = update_solo_state(tracks')
           ELSE UNCHANGED <<tracks, has_solo>>
        /\ MgrOnly

ToggleSolo ==
    \E i \in 0..MaxTracks :
        /\ IF i < Len(tracks)
           THEN /\ tracks' = [tracks EXCEPT ![i + 1] =
                                 IF @ = "Soloed" THEN "Active" ELSE "Soloed"]
                /\ has_solo' = update_solo_state(tracks')
           ELSE UNCHANGED <<tracks, has_solo>>
        /\ MgrOnly

\* track_mut(i) or iter_mut(), then Track::set_state, toggle_mute or
\* toggle_solo on the track handed out: the manager is not told.
TrackMut ==
    \E i \in 0..MaxTracks, call \in {"toggle_solo", "toggle_mute", "set_state"},
       st \in TrackStates :
        /\ i < Len(tracks)
        /\ tracks' = [tracks EXCEPT ![i + 1] =
                          CASE call = "toggle_solo" ->
                                   IF @ = "Soloed" THEN "Active" ELSE "Soloed"
                            [] call = "toggle_mute" ->
                                   IF @ = "Muted" THEN "Active" ELSE "Muted"
                            [] OTHER -> st]
        /\ UNCHANGED has_solo
        /\ MgrOnly

MgrNext ==
    \/ AddTrack
    \/ SetTrackState
    \/ ToggleMute
    \/ ToggleSolo

\* The manager with the tracks it hands out for change.
MgrMutNext ==
    \/ AddTrack
    \/ SetTrackState
    \/ ToggleMute
    \/ ToggleSolo
    \/ TrackMut

(***************************************************************************)
(* TriggerQueue (sequencer/trigger.rs).  The SequencerTiming a caller      *)
(* passes is drawn from TimingInputs.                                      *)
(***************************************************************************)
DefaultPhraseBars == 4
BeatsPerBar == 4

QuantizeModes ==
    {[kind |-> "Immediate", n |-> 0], [kind |-> "Tick", n |-> 0],
     [kind |-> "Beat", n |-> 0], [kind |-> "Bar", n |-> 0],
     [kind |-> "Beats", n |-> 2], [kind |-> "Bars", n |-> 2],
     [kind |-> "Phrase", n |-> 0]}

TimingInputs ==
    {[position_ticks |-> pt, ppqn |-> Ppqn, beats_per_bar |-> BeatsPerBar] :
         pt \in {50, 96}}
TriggerTracks == {0, 1}
TriggerClips == {1}
PollTicks == {0, 95, 96, 400}
PhraseBarInputs == {0, 8}
DefaultQuantizeInputs == {[kind |-> "Beat", n |-> 0]}

ticks_per_bar(timing) == timing.ppqn * timing.beats_per_bar

ticks_per_beat(timing) == timing.ppqn

\* A ticks_to_next_bar that counts to the boundary strictly ahead.
BarStrictlyAhead(timing) ==
    ticks_per_bar(timing) - (timing.position_ticks % ticks_per_bar(timing))

ticks_to_next_bar(timing) ==
    LET into_bar == timing.position_ticks % ticks_per_bar(timing)
    IN IF into_bar = 0 THEN 0 ELSE ticks_per_bar(timing) - into_bar

ticks_to_next_beat(timing) ==
    LET into_beat == timing.position_ticks % ticks_per_beat(timing)
    IN IF into_beat = 0 THEN 0 ELSE ticks_per_beat(timing) - into_beat

saturating_sub(a, b) == IF a > b THEN a - b ELSE 0

ticks_until(q, timing) ==
    CASE q.kind = "Immediate" -> 0
      [] q.kind = "Tick" -> 1
      [] q.kind = "Beat" -> ticks_to_next_beat(timing)
      [] q.kind = "Bar" -> ticks_to_next_bar(timing)
      [] q.kind = "Beats" ->
             ticks_to_next_beat(timing)
                 + saturating_sub(q.n, 1) * ticks_per_beat(timing)
      [] q.kind = "Bars" ->
             ticks_to_next_bar(timing)
                 + saturating_sub(q.n, 1) * ticks_per_bar(timing)
      [] q.kind = "Phrase" ->
             LET phrase_length == ticks_per_bar(timing) * 4
                 position_in_phrase == timing.position_ticks % phrase_length
             IN IF position_in_phrase = 0 THEN 0
                ELSE phrase_length - position_in_phrase

\* QueuedTrigger::new
QueuedTrigger(track_index, clip_index, trigger_tick) ==
    [track_index |-> track_index, clip_index |-> clip_index,
     trigger_tick |-> trigger_tick, follow_action |-> "None"]

\* insert_sorted: before the first trigger that fires later, else at the end.
push_back(q, trigger) == Append(q, trigger)

insert_sorted(q, trigger) ==
    LET later == {k \in 1..Len(q) : q[k].trigger_tick > trigger.trigger_tick}
        pos == IF later = {} THEN Len(q) + 1
               ELSE CHOOSE k \in later : \A o \in later : k <= o
    IN SubSeq(q, 1, pos - 1) \o <<trigger>> \o SubSeq(q, pos, Len(q))

\* The loop of TriggerQueue::poll: how many triggers leave the front.
RECURSIVE due_prefix(_, _)
due_prefix(q, current_tick) ==
    IF q # << >> /\ Head(q).trigger_tick <= current_tick
    THEN 1 + due_prefix(Tail(q), current_tick)
    ELSE 0

TrigInit ==
    /\ trig_queue = << >>
    /\ default_quantize = [kind |-> "Bar", n |-> 0]
    /\ phrase_bars = DefaultPhraseBars
    /\ triggered = << >>
    /\ trigOp = <<"new", 0>>

QueueWithQuantize ==
    \E tr \in TriggerTracks, cl \in TriggerClips, timing \in TimingInputs,
       quantize \in QuantizeModes :
        /\ Len(trig_queue) < MaxTriggers
        /\ LET trigger_tick == timing.position_ticks + ticks_until(quantize, timing)
           IN trig_queue' = insert_sorted(trig_queue,
                                QueuedTrigger(tr, cl, trigger_tick))
        /\ trigOp' = <<"queue", 0>>
        /\ triggered' = << >>
        /\ UNCHANGED <<default_quantize, phrase_bars>>
        /\ TrigOnly

Queue ==
    \E tr \in TriggerTracks, cl \in TriggerClips, timing \in TimingInputs :
        /\ Len(trig_queue) < MaxTriggers
        /\ LET trigger_tick ==
                   timing.position_ticks + ticks_until(default_quantize, timing)
           IN trig_queue' = insert_sorted(trig_queue,
                                QueuedTrigger(tr, cl, trigger_tick))
        /\ trigOp' = <<"queue", 0>>
        /\ triggered' = << >>
        /\ UNCHANGED <<default_quantize, phrase_bars>>
        /\ TrigOnly

SetDefaultQuantize ==
    \E quantize \in DefaultQuantizeInputs :
        /\ default_quantize' = quantize
        /\ trigOp' = <<"set_default_quantize", 0>>
        /\ triggered' = << >>
        /\ UNCHANGED <<trig_queue, phrase_bars>>
        /\ TrigOnly

SetPhraseBars ==
    \E bars \in PhraseBarInputs :
        /\ phrase_bars' = IF bars < 1 THEN 1 ELSE bars
        /\ trigOp' = <<"set_phrase_bars", 0>>
        /\ triggered' = << >>
        /\ UNCHANGED <<trig_queue, default_quantize>>
        /\ TrigOnly

TrigPoll ==
    \E current_tick \in PollTicks :
        /\ LET n == due_prefix(trig_queue, current_tick)
           IN /\ triggered' = SubSeq(trig_queue, 1, n)
              /\ trig_queue' = SubSeq(trig_queue, n + 1, Len(trig_queue))
        /\ trigOp' = <<"poll", current_tick>>
        /\ UNCHANGED <<default_quantize, phrase_bars>>
        /\ TrigOnly

\* A cancel that removes only the first trigger of the track.
CancelFirstOnly(q, track_index) ==
    LET hits == {k \in 1..Len(q) : q[k].track_index = track_index}
        first == CHOOSE k \in hits : \A o \in hits : k <= o
    IN  IF hits = {} THEN q
        ELSE SubSeq(q, 1, first - 1) \o SubSeq(q, first + 1, Len(q))

\* TriggerQueue::cancel_for_track: retain(|t| t.track_index != track_index)
cancel_for_track(q, track_index) ==
    SelectSeq(q, LAMBDA t : t.track_index # track_index)

\* trigOp remembers the track and how many triggers were pending.
CancelForTrack ==
    \E tr \in TriggerTracks :
        /\ trig_queue' = cancel_for_track(trig_queue, tr)
        /\ trigOp' = <<"cancel_for_track", tr, Len(trig_queue)>>
        /\ triggered' = << >>
        /\ UNCHANGED <<default_quantize, phrase_bars>>
        /\ TrigOnly

TrigClear ==
    /\ trig_queue' = << >>
    /\ trigOp' = <<"clear", 0>>
    /\ triggered' = << >>
    /\ UNCHANGED <<default_quantize, phrase_bars>>
    /\ TrigOnly

TrigNext ==
    \/ QueueWithQuantize
    \/ Queue
    \/ SetDefaultQuantize
    \/ SetPhraseBars
    \/ TrigPoll
    \/ CancelForTrack
    \/ TrigClear

(***************************************************************************)
(* MidiClock (timing/clock.rs) and ExternalClockSync (midi/input.rs).      *)
(* The wall clock is read only to decide whether a pulse interval, or a    *)
(* tempo ramp's duration, has passed: both are inputs of tick().  The      *)
(* tempo acts only through that interval.                                  *)
(***************************************************************************)
PPQN == 24
PulsesPerBeat == 24      \* the divisor of current_beat / current_pulse

ClockMessages == {"TimingClock", "Start", "Continue", "Stop", "NoteOn"}

ClockInit ==
    /\ clock_state = "Stopped"
    /\ pulse = 0
    /\ beat = 0
    /\ last_tick = None
    /\ ramping = FALSE
    /\ emitted = "None"
    /\ clkOp = "new"
    /\ paused_at = << >>
    /\ enabled = FALSE
    /\ tick_count = 0
    /\ running = FALSE

SyncQuiet == UNCHANGED <<enabled, tick_count, running>>

ClockQuiet ==
    UNCHANGED <<clock_state, pulse, beat, last_tick, ramping, emitted,
                paused_at>>

ClockStart ==
    /\ clock_state' = "Running"
    /\ pulse' = 0
    /\ beat' = 0
    /\ last_tick' = 0
    /\ emitted' = "START"
    /\ clkOp' = "start"
    /\ paused_at' = << >>
    /\ UNCHANGED ramping
    /\ SyncQuiet
    /\ ClockOnly

ClockStop ==
    /\ clock_state' = "Stopped"
    /\ pulse' = 0
    /\ beat' = 0
    /\ last_tick' = None
    /\ emitted' = "STOP"
    /\ clkOp' = "stop"
    /\ paused_at' = << >>
    /\ UNCHANGED ramping
    /\ SyncQuiet
    /\ ClockOnly

ClockPause ==
    /\ clock_state' = "Paused"
    /\ emitted' = "STOP"
    /\ clkOp' = "pause"
    /\ paused_at' = CASE clock_state = "Running" -> <<pulse, beat>>
                       [] clock_state = "Paused" -> paused_at
                       [] OTHER -> << >>
    /\ UNCHANGED <<pulse, beat, last_tick, ramping>>
    /\ SyncQuiet
    /\ ClockOnly

\* A continue that starts the bar over, as start() does.
ContinueFromTop ==
    /\ IF clock_state = "Paused"
       THEN /\ clock_state' = "Running"
            /\ last_tick' = 0
            /\ pulse' = 0
            /\ beat' = 0
       ELSE UNCHANGED <<clock_state, last_tick, pulse, beat>>
    /\ emitted' = "CONTINUE"
    /\ clkOp' = "continue_playback"
    /\ UNCHANGED <<ramping, paused_at>>
    /\ SyncQuiet
    /\ ClockOnly

ContinuePlayback ==
    /\ IF clock_state = "Paused"
       THEN /\ clock_state' = "Running"
            /\ last_tick' = 0
       ELSE UNCHANGED <<clock_state, last_tick>>
    /\ emitted' = "CONTINUE"
    /\ clkOp' = "continue_playback"
    /\ UNCHANGED <<pulse, beat, ramping, paused_at>>
    /\ SyncQuiet
    /\ ClockOnly

RampTo ==
    /\ ramping' = TRUE
    /\ clkOp' = "ramp_to"
    /\ UNCHANGED <<clock_state, pulse, beat, last_tick, emitted, paused_at>>
    /\ SyncQuiet
    /\ ClockOnly

SetBpm ==
    /\ ramping' = FALSE
    /\ clkOp' = "set_bpm"
    /\ UNCHANGED <<clock_state, pulse, beat, last_tick, emitted, paused_at>>
    /\ SyncQuiet
    /\ ClockOnly

\* tick(): ramp_complete and interval_passed are what the wall clock says.
Tick ==
    \E ramp_complete \in BOOLEAN, interval_passed \in BOOLEAN :
        /\ beat < MaxBeat
        /\ clkOp' = "tick"
        /\ IF clock_state # "Running"
           THEN /\ emitted' = "None"
                /\ UNCHANGED <<clock_state, pulse, beat, last_tick, ramping,
                               paused_at>>
           ELSE /\ ramping' = (ramping /\ ~ramp_complete)
                /\ paused_at' = << >>
                /\ UNCHANGED clock_state
                /\ IF last_tick # None /\ interval_passed
                   THEN /\ last_tick' = 0
                        /\ pulse' = IF pulse + 1 >= PPQN THEN 0 ELSE pulse + 1
                        /\ beat' = IF pulse + 1 >= PPQN THEN beat + 1 ELSE beat
                        /\ emitted' = "TIMING_CLOCK"
                   ELSE /\ emitted' = "None"
                        /\ UNCHANGED <<pulse, beat, last_tick>>
        /\ SyncQuiet
        /\ ClockOnly

SyncEnable ==
    /\ enabled' = TRUE
    /\ tick_count' = 0
    /\ running' = FALSE
    /\ clkOp' = "enable"
    /\ ClockQuiet
    /\ ClockOnly

SyncDisable ==
    /\ enabled' = FALSE
    /\ clkOp' = "disable"
    /\ UNCHANGED <<tick_count, running>>
    /\ ClockQuiet
    /\ ClockOnly

\* ExternalClockSync::process(message): the fields it leaves.
CountEveryPulse(message) ==
    [tick_count |-> IF message = "TimingClock" THEN tick_count + 1 ELSE tick_count,
     running |-> running]

process(message) ==
    IF ~enabled THEN [tick_count |-> tick_count, running |-> running]
    ELSE CASE message = "TimingClock" ->
                  [tick_count |-> IF running THEN tick_count + 1 ELSE tick_count,
                   running |-> running]
           [] message = "Start" -> [tick_count |-> 0, running |-> TRUE]
           [] message = "Continue" -> [tick_count |-> tick_count, running |-> TRUE]
           [] message = "Stop" -> [tick_count |-> tick_count, running |-> FALSE]
           [] OTHER -> [tick_count |-> tick_count, running |-> running]

Process ==
    \E message \in ClockMessages :
        /\ tick_count < MaxPulses
        /\ clkOp' = message
        /\ tick_count' = process(message).tick_count
        /\ running' = process(message).running
        /\ UNCHANGED enabled
        /\ ClockQuiet
        /\ ClockOnly

current_beat == tick_count \div PulsesPerBeat

current_pulse == tick_count % PulsesPerBeat

ClockNext ==
    \/ ClockStart
    \/ ClockStop
    \/ ClockPause
    \/ ContinuePlayback
    \/ RampTo
    \/ SetBpm
    \/ Tick
    \/ SyncEnable
    \/ SyncDisable

SyncNext ==
    \/ SyncEnable
    \/ SyncDisable
    \/ Process

(***************************************************************************)
(* Arrangement: PartManager (arrangement/part.rs), the arrangement         *)
(* SceneManager (arrangement/scene.rs) and the sequencer's SceneManager    *)
(* (sequencer/trigger.rs).  A part is named and carries its transition; a  *)
(* scene of the arrangement carries its launch mode; a scene of the        *)
(* sequencer carries its clips and its quantize mode.                      *)
(***************************************************************************)
PartNames == {"A"}
TriggerNames == {"A", "X"}        \* "X" is never added
PartTransitions == {[kind |-> "NextBar", n |-> 0]}
LaunchModes == {[kind |-> "Bar", n |-> 0]}
SceneInputs == {[clips |-> <<1, None>>, quantize |-> [kind |-> "Bar", n |-> 0]]}
\* The scenes given to the sequencer's scene manager on its own.
SeqSceneInputs ==
    SceneInputs \cup {[clips |-> <<0>>, quantize |-> [kind |-> "Beats", n |-> 2]]}
SceneIndices == 0..MaxScenes
CommandTicks == {50, 96}
UpdateTicks == {95, 96}

ArrInit ==
    /\ parts = << >>
    /\ part_order = << >>
    /\ current_part = << >>
    /\ pending = << >>
    /\ arr_scenes = << >>
    /\ arr_current_scene = None
    /\ arr_pending = << >>
    /\ scene_start_tick = 0
    /\ seq_scenes = << >>
    /\ seq_current_scene = None
    /\ cmd = <<"new", 0, "unit">>

PartQuiet == UNCHANGED <<parts, part_order, current_part, pending>>

ArrSceneQuiet ==
    UNCHANGED <<arr_scenes, arr_current_scene, arr_pending, scene_start_tick>>

SeqSceneQuiet == UNCHANGED <<seq_scenes, seq_current_scene>>

\* The bool trigger_part and launch_scene return: whether the target exists.
ReportsSuccess(found) == "true"

command_result(found) == IF found THEN "true" ELSE "false"

contains(seq, x) == \E k \in 1..Len(seq) : seq[k] = x

\* PartManager::calculate_transition_tick
calculate_transition_tick(current_tick, transition, ppqn, beats_per_bar) ==
    LET per_beat == ppqn
        per_bar == per_beat * beats_per_bar
        phrase_ticks == per_bar * 4
    IN CASE transition.kind = "Immediate" -> current_tick
         [] transition.kind = "NextBeat" ->
                IF current_tick % per_beat = 0 THEN current_tick
                ELSE current_tick + (per_beat - (current_tick % per_beat))
         [] transition.kind = "NextBar" ->
                IF current_tick % per_bar = 0 THEN current_tick
                ELSE current_tick + (per_bar - (current_tick % per_bar))
         [] transition.kind = "Beats" -> current_tick + transition.n * per_beat
         [] transition.kind = "Bars" -> current_tick + transition.n * per_bar
         [] transition.kind = "EndOfPhrase" ->
                IF current_tick % phrase_ticks = 0 THEN current_tick
                ELSE current_tick + (phrase_ticks - (current_tick % phrase_ticks))
         [] transition.kind = "Crossfade" -> current_tick + transition.n

AddPart ==
    \E name \in PartNames, transition \in PartTransitions :
        /\ Cardinality(DOMAIN parts \cup {name}) <= MaxParts
        /\ parts' = [n \in DOMAIN parts \cup {name} |->
                         IF n = name THEN transition ELSE parts[n]]
        /\ part_order' = IF contains(part_order, name) THEN part_order
                         ELSE Append(part_order, name)
        /\ cmd' = <<"add_part", 0, "unit">>
        /\ UNCHANGED <<current_part, pending>>
        /\ ArrSceneQuiet
        /\ SeqSceneQuiet
        /\ ArrOnly

RemovePart ==
    \E name \in PartNames :
        /\ part_order' = SelectSeq(part_order, LAMBDA n : n # name)
        /\ parts' = [n \in DOMAIN parts \ {name} |-> parts[n]]
        /\ cmd' = <<"remove_part", 0, "unit">>
        /\ UNCHANGED <<current_part, pending>>
        /\ ArrSceneQuiet
        /\ SeqSceneQuiet
        /\ ArrOnly

TriggerPart ==
    \E name \in TriggerNames, current_tick \in CommandTicks :
        /\ IF name \in DOMAIN parts
           THEN LET scheduled_tick ==
                        calculate_transition_tick(current_tick, parts[name],
                                                  Ppqn, BeatsPerBar)
                IN /\ IF scheduled_tick = current_tick
                      THEN /\ current_part' = <<name>>
                           /\ pending' = << >>
                      ELSE /\ pending' = <<[target |-> name,
                                            scheduled_tick |-> scheduled_tick,
                                            transition |-> parts[name]]>>
                           /\ UNCHANGED current_part
                   /\ cmd' = <<"trigger_part", name, command_result(TRUE),
                               current_tick>>
           ELSE /\ cmd' = <<"trigger_part", name, command_result(FALSE),
                            current_tick>>
                /\ UNCHANGED <<current_part, pending>>
        /\ UNCHANGED <<parts, part_order>>
        /\ ArrSceneQuiet
        /\ SeqSceneQuiet
        /\ ArrOnly

\* An update that waits until the scheduled tick has passed.
StrictlyAfter(current_tick, scheduled_tick) == current_tick > scheduled_tick

\* current_tick >= pending.scheduled_tick, the test of both update methods
transition_due(current_tick, scheduled_tick) == current_tick >= scheduled_tick

\* PartManager::update; cmd holds the tick and whether a part was returned.
PartUpdate ==
    \E current_tick \in UpdateTicks :
        /\ IF /\ pending # << >>
              /\ transition_due(current_tick, pending[1].scheduled_tick)
           THEN /\ pending' = << >>
                /\ current_part' = <<pending[1].target>>
                /\ cmd' = <<"part_update", current_tick,
                            IF pending[1].target \in DOMAIN parts
                            THEN "some" ELSE "none">>
           ELSE /\ UNCHANGED <<current_part, pending>>
                /\ cmd' = <<"part_update", current_tick, "none">>
        /\ UNCHANGED <<parts, part_order>>
        /\ ArrSceneQuiet
        /\ SeqSceneQuiet
        /\ ArrOnly

PartCancelPending ==
    /\ pending' = << >>
    /\ cmd' = <<"part_cancel_pending", 0, "unit">>
    /\ UNCHANGED <<parts, part_order, current_part>>
    /\ ArrSceneQuiet
    /\ SeqSceneQuiet
    /\ ArrOnly

\* arrangement SceneManager::calculate_launch_tick
calculate_launch_tick(current_tick, launch_mode, ppqn, beats_per_bar) ==
    LET per_beat == ppqn
        per_bar == per_beat * beats_per_bar
    IN CASE launch_mode.kind = "Immediate" -> current_tick
         [] launch_mode.kind = "Beat" ->
                IF current_tick % per_beat = 0 THEN current_tick
                ELSE current_tick + (per_beat - (current_tick % per_beat))
         [] launch_mode.kind = "Bar" ->
                IF current_tick % per_bar = 0 THEN current_tick
                ELSE current_tick + (per_bar - (current_tick % per_bar))
         [] launch_mode.kind = "Beats" -> current_tick + launch_mode.n * per_beat
         [] launch_mode.kind = "Bars" -> current_tick + launch_mode.n * per_bar

ArrAddScene ==
    \E launch_mode \in LaunchModes :
        /\ Len(arr_scenes) < MaxScenes
        /\ arr_scenes' = Append(arr_scenes, launch_mode)
        /\ cmd' = <<"add_scene", 0, "unit">>
        /\ UNCHANGED <<arr_current_scene, arr_pending, scene_start_tick>>
        /\ PartQuiet
        /\ SeqSceneQuiet
        /\ ArrOnly

RemoveScene ==
    \E i \in SceneIndices :
        /\ arr_scenes' = IF i < Len(arr_scenes)
                         THEN SubSeq(arr_scenes, 1, i)
                                  \o SubSeq(arr_scenes, i + 2, Len(arr_scenes))
                         ELSE arr_scenes
        /\ cmd' = <<"remove_scene", 0, "unit">>
        /\ UNCHANGED <<arr_current_scene, arr_pending, scene_start_tick>>
        /\ PartQuiet
        /\ SeqSceneQuiet
        /\ ArrOnly

LaunchScene ==
    \E i \in SceneIndices, current_tick \in CommandTicks :
        /\ IF i < Len(arr_scenes)
           THEN LET scheduled_tick ==
                        calculate_launch_tick(current_tick, arr_scenes[i + 1],
                                              Ppqn, BeatsPerBar)
                IN /\ IF scheduled_tick = current_tick
                      THEN /\ arr_current_scene' = i
                           /\ scene_start_tick' = current_tick
                           /\ arr_pending' = << >>
                      ELSE /\ arr_pending' = <<[scene_index |-> i,
                                                scheduled_tick |-> scheduled_tick]>>
                           /\ UNCHANGED <<arr_current_scene, scene_start_tick>>
                   /\ cmd' = <<"launch_scene", i, command_result(TRUE)>>
           ELSE /\ cmd' = <<"launch_scene", i, command_result(FALSE)>>
                /\ UNCHANGED <<arr_current_scene, arr_pending, scene_start_tick>>
        /\ UNCHANGED arr_scenes
        /\ PartQuiet
        /\ SeqSceneQuiet
        /\ ArrOnly

\* SceneManager::update; cmd holds the tick and whether a scene was returned.
ArrUpdate ==
    \E current_tick \in UpdateTicks :
        /\ IF /\ arr_pending # << >>
              /\ transition_due(current_tick, arr_pending[1].scheduled_tick)
           THEN /\ arr_pending' = << >>
                /\ arr_current_scene' = arr_pending[1].scene_index
                /\ scene_start_tick' = current_tick
                /\ cmd' = <<"scene_update", current_tick,
                            IF arr_pending[1].scene_index < Len(arr_scenes)
                            THEN "some" ELSE "none">>
           ELSE /\ UNCHANGED <<arr_current_scene, arr_pending,
                               scene_start_tick>>
                /\ cmd' = <<"scene_update", current_tick, "none">>
        /\ UNCHANGED arr_scenes
        /\ PartQuiet
        /\ SeqSceneQuiet
        /\ ArrOnly

ArrStop ==
    /\ arr_current_scene' = None
    /\ arr_pending' = << >>
    /\ cmd' = <<"scene_stop", 0, "unit">>
    /\ UNCHANGED <<arr_scenes, scene_start_tick>>
    /\ PartQuiet
    /\ SeqSceneQuiet
    /\ ArrOnly

\* Scene::queue_all: one queue_with_quantize per track, in track order.
\* A queue_all that passes over the tracks the scene gives no clip.
RECURSIVE QueueClipsOnly(_, _, _, _, _)
QueueClipsOnly(q, clips, track_index, timing, quantize) ==
    IF track_index >= Len(clips) THEN q
    ELSE QueueClipsOnly(
             IF clips[track_index + 1] = None THEN q
             ELSE insert_sorted(q, QueuedTrigger(track_index,
                                       clips[track_index + 1],
                                       timing.position_ticks
                                           + ticks_until(quantize, timing))),
             clips, track_index + 1, timing, quantize)

\* Scene::queue_all: queue_with_quantize for every track of the scene.
RECURSIVE queue_all(_, _, _, _, _)
queue_all(q, clips, track_index, timing, quantize) ==
    IF track_index >= Len(clips) THEN q
    ELSE queue_all(insert_sorted(q, QueuedTrigger(track_index,
                                       clips[track_index + 1],
                                       timing.position_ticks
                                           + ticks_until(quantize, timing))),
                   clips, track_index + 1, timing, quantize)

SeqAddSceneFrom(inputs) ==
    \E scene \in inputs :
        /\ Len(seq_scenes) < MaxScenes
        /\ seq_scenes' = Append(seq_scenes, scene)
        /\ cmd' = <<"add_scene", 0, "unit">>
        /\ UNCHANGED seq_current_scene
        /\ PartQuiet
        /\ ArrSceneQuiet
        /\ ArrOnly

TriggerScene ==
    \E i \in SceneIndices, timing \in TimingInputs :
        /\ IF i < Len(seq_scenes)
           THEN /\ Len(trig_queue) + Len(seq_scenes[i + 1].clips) <= MaxTriggers
                /\ trig_queue' = queue_all(trig_queue, seq_scenes[i + 1].clips, 0,
                                           timing, seq_scenes[i + 1].quantize)
                /\ seq_current_scene' = i
                /\ trigOp' = <<"queue", 0>>
                /\ triggered' = << >>
           ELSE UNCHANGED <<trig_queue, seq_current_scene, trigOp, triggered>>
        /\ cmd' = <<"trigger_scene", i, "unit", timing.position_ticks>>
        /\ UNCHANGED <<seq_scenes, default_quantize, phrase_bars>>
        /\ PartQuiet
        /\ ArrSceneQuiet
        /\ SceneTrigOnly

SeqAddScene == SeqAddSceneFrom(SceneInputs)

\* The sequencer's scene manager with its trigger queue, on their own.
SeqAddAnyScene == SeqAddSceneFrom(SeqSceneInputs)

SeqSceneNext == SeqAddAnyScene \/ TriggerScene \/ TrigPoll

ArrangeNext ==
    \/ AddPart
    \/ RemovePart
    \/ TriggerPart
    \/ PartUpdate
    \/ PartCancelPending
    \/ ArrAddScene
    \/ RemoveScene
    \/ LaunchScene
    \/ ArrUpdate
    \/ ArrStop
    \/ SeqAddScene
    \/ TriggerScene

(***************************************************************************)
(* FollowAction::resolve (sequencer/trigger.rs).  Random and Either draw   *)
(* from a random number generator: resolve is the set of indices they can  *)
(* return.  An Either holds two actions that are not themselves Either.    *)
(***************************************************************************)
fa(kind) == [kind |-> kind, idx |-> 0, a |-> "None", b |-> "None"]

FollowActions ==
    {fa(k) : k \in {"None", "Stop", "Again", "Next", "Previous", "First",
                    "Last", "Random"}}
        \cup {[kind |-> "Specific", idx |-> i, a |-> "None", b |-> "None"] :
                  i \in {0, 2}}
        \cup {[kind |-> "Either", idx |-> 0, a |-> "Next", b |-> "Stop"]}

NextWithoutWrap(action, current, total) == {current + 1}

resolve(action, current, total) ==
    LET simple(kind, idx) ==
            CASE kind = "None" -> {None}
              [] kind = "Stop" -> {None}
              [] kind = "Again" -> {current}
              [] kind = "Next" -> IF current + 1 < total THEN {current + 1} ELSE {0}
              [] kind = "Previous" ->
                     IF current > 0 THEN {current - 1}
                     ELSE {saturating_sub(total, 1)}
              [] kind = "First" -> {0}
              [] kind = "Last" -> {saturating_sub(total, 1)}
              [] kind = "Random" -> IF total > 0 THEN 0..(total - 1) ELSE {None}
              [] kind = "Specific" -> IF idx < total THEN {idx} ELSE {None}
    IN IF action.kind = "Either"
       THEN simple(action.a, 0) \cup simple(action.b, 0)
       ELSE simple(action.kind, action.idx)

FollowInit ==
    /\ fa_action = fa("None")
    /\ fa_current = 0
    /\ fa_total = 0
    /\ fa_result = None

Resolve ==
    \E action \in FollowActions, current \in 0..MaxClips, total \in 0..MaxClips :
        /\ fa_action' = action
        /\ fa_current' = current
        /\ fa_total' = total
        /\ fa_result' \in resolve(action, current, total)
        /\ FollowOnly

FollowNext == Resolve


(***************************************************************************)
(* Generators (generators/drums.rs, generators/arpeggio.rs).               *)
(*                                                                         *)
(* The euclidean pattern of both generators is Bjorklund's algorithm on    *)
(* two vectors of groups.  A Vec<bool> is a sequence of BOOLEAN and a      *)
(* Vec<Vec<bool>> a sequence of those.                                     *)
(***************************************************************************)
\* vec![value; n]
vec(value, n) == [i \in 1..n |-> value]

\* into_iter().flatten().collect(): the groups, concatenated in order.
RECURSIVE flatten(_)
flatten(groups) ==
    IF groups = <<>> THEN <<>> ELSE Head(groups) \o flatten(Tail(groups))

\* iter().filter(|&&b| b).count()
RECURSIVE count_true(_)
count_true(pattern) ==
    IF pattern = <<>> THEN 0
    ELSE (IF Head(pattern) THEN 1 ELSE 0) + count_true(Tail(pattern))

\* The while loop of generate_euclidean: as long as more than one remainder
\* group is left, the first min_len pattern groups are extended by the
\* remainder group of the same index, and what is left over of the longer
\* vector becomes the new remainder.  The result is <<pattern, remainder>>.
RECURSIVE bjorklund(_, _)
bjorklund(pattern, remainder) ==
    IF Len(remainder) <= 1 THEN <<pattern, remainder>>
    ELSE LET min_len == Min(Len(pattern), Len(remainder))
             extended == [i \in 1..Len(pattern) |->
                             IF i <= min_len
                             THEN pattern[i] \o remainder[i]
                             ELSE pattern[i]]
         IN  IF Len(pattern) > min_len
             THEN bjorklund(SubSeq(extended, 1, min_len),
                            SubSeq(extended, min_len + 1, Len(extended)))
             ELSE bjorklund(extended,
                            SubSeq(remainder, min_len + 1, Len(remainder)))

\* A pattern generator that forgets the groups left in the remainder.
DropRemainder(hits, steps) ==
    IF steps = 0 THEN <<>>
    ELSE IF hits >= steps THEN vec(TRUE, steps)
    ELSE IF hits = 0 THEN vec(FALSE, steps)
    ELSE flatten(bjorklund(vec(<<TRUE>>, hits),
                           vec(<<FALSE>>, steps - hits))[1])

\* DrumGenerator::generate_euclidean
generate_euclidean(hits, steps) ==
    IF steps = 0 THEN <<>>
    ELSE IF hits >= steps THEN vec(TRUE, steps)
    ELSE IF hits = 0 THEN vec(FALSE, steps)
    ELSE LET done == bjorklund(vec(<<TRUE>>, hits),
                               vec(<<FALSE>>, steps - hits))
         IN  flatten(done[1]) \o flatten(done[2])

\* ArpeggioGenerator::generate_euclidean, the same algorithm written out a
\* second time in the arpeggiator.
RECURSIVE arp_bjorklund(_, _)
arp_bjorklund(pattern, remainder) ==
    IF Len(remainder) <= 1 THEN <<pattern, remainder>>
    ELSE LET min_len == Min(Len(pattern), Len(remainder))
             extended == [i \in 1..Len(pattern) |->
                             IF i <= min_len
                             THEN pattern[i] \o remainder[i]
                             ELSE pattern[i]]
         IN  IF Len(pattern) > min_len
             THEN arp_bjorklund(SubSeq(extended, 1, min_len),
                                SubSeq(extended, min_len + 1, Len(extended)))
             ELSE arp_bjorklund(extended,
                                SubSeq(remainder, min_len + 1, Len(remainder)))

arp_generate_euclidean(hits, steps) ==
    IF steps = 0 THEN <<>>
    ELSE IF hits >= steps THEN vec(TRUE, steps)
    ELSE IF hits = 0 THEN vec(FALSE, steps)
    ELSE LET done == arp_bjorklund(vec(<<TRUE>>, hits),
                                   vec(<<FALSE>>, steps - hits))
         IN  flatten(done[1]) \o flatten(done[2])


(***************************************************************************)
(* DrumGenerator (generators/drums.rs).  The f64 parameters (swing,        *)
(* humanize_timing, fill_probability) and the f64 argument of set_param    *)
(* are kept in tenths: 3 stands for 0.3 and 40 for 4.0.  The u8 parameters *)
(* are kept as they are, so `value as u8` divides by ten, rounding towards *)
(* zero and saturating at 0 and 255.                                       *)
(***************************************************************************)
gm_drums == [KICK |-> 36, SNARE |-> 38, CLOSED_HAT |-> 42, OPEN_HAT |-> 46,
             RIM |-> 37, LOW_TOM |-> 45, MID_TOM |-> 47, HIGH_TOM |-> 50]

DrumStyles ==
    {"FourOnFloor", "Breakbeat", "Sparse", "Busy", "Euclidean", "Random"}

from_value(v) ==
    CASE v = 0 -> "FourOnFloor"
      [] v = 1 -> "Breakbeat"
      [] v = 2 -> "Sparse"
      [] v = 3 -> "Busy"
      [] v = 4 -> "Euclidean"
      [] OTHER -> "Random"

to_value(style) ==
    CASE style = "FourOnFloor" -> 0
      [] style = "Breakbeat" -> 1
      [] style = "Sparse" -> 2
      [] style = "Busy" -> 3
      [] style = "Euclidean" -> 4
      [] style = "Random" -> 5

\* `value as u8` for a value in tenths
as_u8(value) ==
    IF value < 0 THEN 0
    ELSE IF value \div 10 > 255 THEN 255 ELSE value \div 10

clamp(v, lo, hi) == IF v < lo THEN lo ELSE IF v > hi THEN hi ELSE v

\* DrumConfig::default()
DrumConfigDefault ==
    [style |-> "FourOnFloor", steps_per_bar |-> 16, swing |-> 0,
     humanize_timing |-> 0, humanize_velocity |-> 5, fill_probability |-> 3,
     fill_every_bars |-> 4, kick_euclidean_hits |-> 4,
     snare_euclidean_hits |-> 4, hat_euclidean_hits |-> 8]

\* The names get_param and params know.
ParamNames ==
    {"style", "swing", "humanize_timing", "humanize_velocity",
     "fill_probability", "fill_every_bars", "kick_euclidean_hits",
     "snare_euclidean_hits", "hat_euclidean_hits"}

\* DrumVoice::new(note).with_pattern(pattern): no accents, no ghost notes,
\* probability 1.0.
DrumVoice(note, pattern) ==
    [note |-> note, pattern |-> pattern, probability |-> 10,
     accent_pattern |-> vec(FALSE, 16), ghost_pattern |-> vec(FALSE, 16),
     ghost_velocity |-> 50]

\* (0..steps).map(|i| ...).collect() for the steps in `on`
steps_in(on, steps) == [i \in 1..steps |-> (i - 1) \in on]

\* What the random number generator may give DrumStyle::Random: every step
\* of the three patterns missed, or every step hit.
RandomRolls == BOOLEAN

\* DrumGenerator::build_pattern: the voices of the configured style.
build_pattern(cfg, roll) ==
    LET steps == cfg.steps_per_bar
        every(n) == {i \in 0..(steps - 1) : i % n = 0}
        all == 0..(steps - 1)
    IN  CASE cfg.style = "FourOnFloor" ->
             [kick |-> [DrumVoice(gm_drums.KICK, steps_in(every(4), steps))
                        EXCEPT !.accent_pattern = steps_in({0}, steps)],
              snare |-> DrumVoice(gm_drums.SNARE, steps_in({4, 12}, steps)),
              hat |-> DrumVoice(gm_drums.CLOSED_HAT,
                                steps_in(every(2), steps)),
              open_hat |-> DrumVoice(gm_drums.OPEN_HAT,
                                     steps_in({7, 15}, steps))]
          [] cfg.style = "Breakbeat" ->
             [kick |-> DrumVoice(gm_drums.KICK, steps_in({0, 6, 10}, steps)),
              snare |-> [DrumVoice(gm_drums.SNARE, steps_in({4, 12}, steps))
                         EXCEPT !.ghost_pattern = steps_in({7, 11}, steps),
                                !.ghost_velocity = 45],
              hat |-> DrumVoice(gm_drums.CLOSED_HAT, steps_in(all, steps))]
          [] cfg.style = "Sparse" ->
             [kick |-> [DrumVoice(gm_drums.KICK, steps_in({0, 10}, steps))
                        EXCEPT !.probability = 9],
              snare |-> DrumVoice(gm_drums.SNARE, steps_in({4, 12}, steps)),
              hat |-> DrumVoice(gm_drums.CLOSED_HAT,
                                steps_in(every(4), steps))]
          [] cfg.style = "Busy" ->
             [kick |-> DrumVoice(gm_drums.KICK,
                                 steps_in({0, 3, 6, 10, 14}, steps)),
              snare |-> DrumVoice(gm_drums.SNARE,
                                  steps_in({4, 8, 12}, steps)),
              hat |-> DrumVoice(gm_drums.CLOSED_HAT, steps_in(all, steps)),
              rim |-> DrumVoice(gm_drums.RIM, steps_in({2, 7, 15}, steps))]
          [] cfg.style = "Euclidean" ->
             [kick |-> DrumVoice(gm_drums.KICK,
                         generate_euclidean(cfg.kick_euclidean_hits, steps)),
              snare |-> DrumVoice(gm_drums.SNARE,
                         generate_euclidean(cfg.snare_euclidean_hits, steps)),
              hat |-> DrumVoice(gm_drums.CLOSED_HAT,
                         generate_euclidean(cfg.hat_euclidean_hits, steps))]
          [] cfg.style = "Random" ->
             [kick |-> DrumVoice(gm_drums.KICK,
                         [vec(roll, steps) EXCEPT ![1] = TRUE]),
              snare |-> DrumVoice(gm_drums.SNARE, vec(roll, steps)),
              hat |-> DrumVoice(gm_drums.CLOSED_HAT, vec(roll, steps))]

\* Generator::set_param on the configuration; an unknown name changes
\* nothing.
set_param(cfg, name, value) ==
    CASE name = "style" ->
             [cfg EXCEPT !.style = from_value(as_u8(value))]
      [] name = "swing" -> [cfg EXCEPT !.swing = clamp(value, 0, 10)]
      [] name = "humanize_timing" ->
             [cfg EXCEPT !.humanize_timing = clamp(value, 0, 500)]
      [] name = "humanize_velocity" ->
             [cfg EXCEPT !.humanize_velocity = Min(as_u8(value), 30)]
      [] name = "fill_probability" ->
             [cfg EXCEPT !.fill_probability = clamp(value, 0, 10)]
      [] name = "fill_every_bars" ->
             [cfg EXCEPT !.fill_every_bars = clamp(as_u8(value), 1, 16)]
      [] name = "kick_euclidean_hits" ->
             [cfg EXCEPT !.kick_euclidean_hits = clamp(as_u8(value), 1, 16)]
      [] name = "snare_euclidean_hits" ->
             [cfg EXCEPT !.snare_euclidean_hits = clamp(as_u8(value), 1, 16)]
      [] name = "hat_euclidean_hits" ->
             [cfg EXCEPT !.hat_euclidean_hits = clamp(as_u8(value), 1, 16)]
      [] OTHER -> cfg

\* The `rebuild` flag of set_param, from the configuration as just set.
rebuild(cfg, name) ==
    \/ name = "style"
    \/ /\ name \in {"kick_euclidean_hits", "snare_euclidean_hits",
                    "hat_euclidean_hits"}
       /\ cfg.style = "Euclidean"

\* Generator::get_param: the value in the units of set_param, or None.
get_param(cfg, name) ==
    CASE name = "style" -> to_value(cfg.style) * 10
      [] name = "swing" -> cfg.swing
      [] name = "humanize_timing" -> cfg.humanize_timing
      [] name = "humanize_velocity" -> cfg.humanize_velocity * 10
      [] name = "fill_probability" -> cfg.fill_probability
      [] name = "fill_every_bars" -> cfg.fill_every_bars * 10
      [] name = "kick_euclidean_hits" -> cfg.kick_euclidean_hits * 10
      [] name = "snare_euclidean_hits" -> cfg.snare_euclidean_hits * 10
      [] name = "hat_euclidean_hits" -> cfg.hat_euclidean_hits * 10
      [] OTHER -> None

\* Generator::params
params(cfg) == [name \in ParamNames |-> get_param(cfg, name)]

\* The playback state a DrumGenerator::new() starts with.
DrumPlaybackNew ==
    [current_step |-> 0, current_bar |-> 0, tick_accumulator |-> 0,
     in_fill |-> FALSE]

\* A reset that forgets to rewind the bar counter.
ResetKeepsBar(playback) ==
    [current_step |-> 0, current_bar |-> playback.current_bar,
     tick_accumulator |-> 0, in_fill |-> FALSE]

\* Generator::reset for DrumGenerator, on the playback fields.
reset(playback) ==
    [current_step |-> 0, current_bar |-> 0, tick_accumulator |-> 0,
     in_fill |-> FALSE]

\* GeneratorContext of the generate calls: 24 ppqn, 4 beats per bar.
DrumContext == [ppqn |-> 24, beats_per_bar |-> 4]

\* GeneratorContext::ticks_per_bar
context_ticks_per_bar(context) == context.ppqn * context.beats_per_bar

\* The while loop of DrumGenerator::generate on the playback fields: one
\* pattern step per ticks_per_step of the window.  At step 12 of a bar whose
\* number + 1 is a multiple of fill_every_bars a fill starts when the random
\* number is below fill_probability (`roll` when the probability leaves it
\* open); the step that wraps to 0 ends the fill and counts the bar.
RECURSIVE drum_steps(_, _, _, _, _, _)
drum_steps(cfg, playback, tick, ticks_to_generate, ticks_per_step, roll) ==
    IF tick >= ticks_to_generate THEN playback
    ELSE LET step == playback.current_step
             starts_fill ==
                 /\ step = 12
                 /\ cfg.fill_every_bars > 0
                 /\ (playback.current_bar + 1) % cfg.fill_every_bars = 0
                 /\ cfg.fill_probability > 0
                 /\ (cfg.fill_probability >= 10 \/ roll)
             next_step == (step + 1) % cfg.steps_per_bar
             after ==
                 [playback EXCEPT
                    !.current_step = next_step,
                    !.current_bar = IF next_step = 0 THEN @ + 1 ELSE @,
                    !.in_fill = IF next_step = 0 THEN FALSE
                                ELSE (@ \/ starts_fill)]
         IN  drum_steps(cfg, after, tick + ticks_per_step, ticks_to_generate,
                        ticks_per_step, roll)


\* The events of DrumGenerator::generate as <<start_tick, note>>: at each
\* step the four notes of generate_fill when a fill runs, and otherwise a hit
\* of every voice whose pattern has the step (a voice of probability below 1
\* hits at random and is left out) or whose ghost pattern has it.
RECURSIVE drum_events(_, _, _, _, _, _, _)
drum_events(cfg, vs, playback, tick, ticks_to_generate, ticks_per_step, roll) ==
    IF tick >= ticks_to_generate THEN {}
    ELSE LET step == playback.current_step
             starts_fill ==
                 /\ step = 12
                 /\ cfg.fill_every_bars > 0
                 /\ (playback.current_bar + 1) % cfg.fill_every_bars = 0
                 /\ cfg.fill_probability > 0
                 /\ (cfg.fill_probability >= 10 \/ roll)
             filling == (playback.in_fill \/ starts_fill) /\ step >= 12
             hit(v) ==
                 \/ /\ vs[v].pattern[(step % Len(vs[v].pattern)) + 1]
                    /\ vs[v].probability >= 10
                 \/ vs[v].ghost_pattern[(step % Len(vs[v].ghost_pattern)) + 1]
             here ==
                 IF filling
                 THEN {<<tick, note>> :
                           note \in {gm_drums.HIGH_TOM, gm_drums.MID_TOM,
                                     gm_drums.LOW_TOM, gm_drums.KICK}}
                 ELSE {<<tick, vs[v].note>> : v \in {w \in DOMAIN vs : hit(w)}}
             after == drum_steps(cfg, playback, 0, ticks_per_step,
                                 ticks_per_step, roll)
         IN  here \cup drum_events(cfg, vs, after, tick + ticks_per_step,
                                   ticks_to_generate, ticks_per_step, roll)

\* The set_param calls tried: name and value (in tenths); "tempo" is a name
\* the drum generator does not know.
SetParamInputs ==
    {<<"style", 10>>, <<"style", 40>>, <<"style", 90>>,
     <<"kick_euclidean_hits", 30>>, <<"fill_every_bars", 10>>,
     <<"fill_probability", 10>>, <<"tempo", 10>>}

\* ticks_to_generate of the generate calls: one step, one bar.
GenWindows == {6, 96}

\* ticks_to_generate of the runs whose hits are kept: half a step, one step,
\* a step and a half.
SplitWindows == {3, 6, 9}

\* DrumGenerator::new()
GenInit ==
    /\ config = DrumConfigDefault
    /\ voices = build_pattern(DrumConfigDefault, FALSE)
    /\ current_step = 0
    /\ current_bar = 0
    /\ tick_accumulator = 0
    /\ drum_run = [ok |-> TRUE, hits |-> {}]
    /\ in_fill = FALSE
    /\ genOp = <<"new", 0>>
    /\ eu_hits = 0
    /\ eu_steps = 0
    /\ eu_pattern = <<>>
    /\ eu_arp_pattern = <<>>

EuclidQuiet == UNCHANGED <<eu_hits, eu_steps, eu_pattern, eu_arp_pattern>>

DrumQuiet ==
    UNCHANGED <<config, voices, current_step, current_bar, tick_accumulator,
                drum_run, in_fill, genOp>>

\* DrumGenerator::new(): a fresh instance replaces the generator.
DrumNew ==
    /\ config' = DrumConfigDefault
    /\ voices' = build_pattern(DrumConfigDefault, FALSE)
    /\ current_step' = DrumPlaybackNew.current_step
    /\ current_bar' = DrumPlaybackNew.current_bar
    /\ tick_accumulator' = DrumPlaybackNew.tick_accumulator
    /\ in_fill' = DrumPlaybackNew.in_fill
    /\ drum_run' = [ok |-> TRUE, hits |-> {}]
    /\ genOp' = <<"new", 0>>
    /\ EuclidQuiet
    /\ GenOnly

\* Generator::set_param
SetParam ==
    \E input \in SetParamInputs, roll \in RandomRolls :
        LET name == input[1]
            cfg == set_param(config, name, input[2])
        IN  /\ config' = cfg
            /\ voices' = IF rebuild(cfg, name) THEN build_pattern(cfg, roll)
                         ELSE voices
            /\ genOp' = <<"set_param", name>>
            /\ drum_run' = IF tick_accumulator = 0 THEN drum_run
                           ELSE [ok |-> FALSE, hits |-> {}]
            /\ UNCHANGED <<current_step, current_bar, tick_accumulator,
                           in_fill>>
            /\ EuclidQuiet
            /\ GenOnly

\* Generator::generate with a window of `windows`, up to `limit` ticks in
\* all; the hits are kept in drum_run when `kept`.
DrumGenerateFrom(windows, limit, kept) ==
    \E ticks_to_generate \in windows, roll \in BOOLEAN :
        LET ticks_per_step ==
                context_ticks_per_bar(DrumContext) \div config.steps_per_bar
            playback == [current_step |-> current_step,
                         current_bar |-> current_bar,
                         tick_accumulator |-> tick_accumulator,
                         in_fill |-> in_fill]
            after == drum_steps(config, playback, 0, ticks_to_generate,
                                ticks_per_step, roll)
        IN  /\ tick_accumulator + ticks_to_generate <= limit
            /\ current_step' = after.current_step
            /\ current_bar' = after.current_bar
            /\ in_fill' = after.in_fill
            /\ tick_accumulator' = tick_accumulator + ticks_to_generate
            /\ genOp' = <<"generate", ticks_to_generate>>
            /\ drum_run' =
                   IF drum_run.ok /\ kept
                   THEN [drum_run EXCEPT !.hits = @ \cup
                           {<<tick_accumulator + h[1], h[2]>> :
                                h \in drum_events(config, voices, playback, 0,
                                                  ticks_to_generate,
                                                  ticks_per_step, roll)}]
                   ELSE [ok |-> FALSE, hits |-> {}]
            /\ UNCHANGED <<config, voices>>
            /\ EuclidQuiet
            /\ GenOnly

\* Generator::reset; genOp remembers the tick accumulator it cleared.
DrumReset ==
    LET after == reset([current_step |-> current_step,
                        current_bar |-> current_bar,
                        tick_accumulator |-> tick_accumulator,
                        in_fill |-> in_fill])
    IN  /\ current_step' = after.current_step
        /\ current_bar' = after.current_bar
        /\ tick_accumulator' = after.tick_accumulator
        /\ in_fill' = after.in_fill
        /\ genOp' = <<"reset", tick_accumulator>>
        /\ drum_run' = [ok |-> TRUE, hits |-> {}]
        /\ UNCHANGED <<config, voices>>
        /\ EuclidQuiet
        /\ GenOnly

DrumGenerate == DrumGenerateFrom(GenWindows, MaxDrumTicks, FALSE)

DrumGenerateSplit == DrumGenerateFrom(SplitWindows, MaxSplitTicks, TRUE)

DrumNext == DrumNew \/ SetParam \/ DrumGenerate \/ DrumReset

\* Runs of short windows whose hits are kept.
DrumSplitNext == DrumNew \/ SetParam \/ DrumGenerateSplit \/ DrumReset

\* generate_euclidean of both generators on one pair of arguments.
Euclid ==
    \E hits \in 0..MaxHits, steps \in 0..MaxSteps :
        /\ eu_hits' = hits
        /\ eu_steps' = steps
        /\ eu_pattern' = generate_euclidean(hits, steps)
        /\ eu_arp_pattern' = arp_generate_euclidean(hits, steps)
        /\ DrumQuiet
        /\ GenOnly

EuclidNext == Euclid


(***************************************************************************)
(* Song and SongPlayer (arrangement/song.rs).  A song is the vector of its *)
(* sections' lengths in bars with the numerator of its time signature; an  *)
(* Option is a sequence of length <= 1, or None for an integer.            *)
(***************************************************************************)
SongModes == {"Stopped", "Playing", "Looping", "Recording"}

\* Songs loaded into the player: three sections of one bar, two sections of
\* one and two bars, a song without sections; all in 4/4.
SongInputs ==
    {[sections |-> <<1, 1, 1>>, beats_per_bar |-> 4],
     [sections |-> <<1, 2>>, beats_per_bar |-> 4],
     [sections |-> << >>, beats_per_bar |-> 4]}

\* set_loop(start, end, count) calls tried.
LoopInputs ==
    {[start |-> 1, end |-> 1, count |-> 2],
     [start |-> 0, end |-> 1, count |-> 1],
     [start |-> 1, end |-> 2, count |-> 2],
     [start |-> 0, end |-> 0, count |-> None]}

\* Ticks handed to update(): half a bar, a bar, a little more than a bar.
SongUpdateTicks == {48, 96, 100}

\* SongPosition::at_section
at_section(section) == [section |-> section, bar |-> 0, beat |-> 0, tick |-> 0]

\* SongPosition::to_ticks: the complete sections before the position (those
\* section_lengths knows), then bars, beats and ticks.
RECURSIVE complete_sections(_, _, _, _)
complete_sections(i, section, per_bar, section_lengths) ==
    IF i >= section THEN 0
    ELSE (IF i < Len(section_lengths) THEN section_lengths[i + 1] * per_bar
          ELSE 0)
         + complete_sections(i + 1, section, per_bar, section_lengths)

to_ticks(pos, ppqn, beats_per_bar, section_lengths) ==
    complete_sections(0, pos.section, beats_per_bar * ppqn, section_lengths)
        + pos.bar * beats_per_bar * ppqn + pos.beat * ppqn + pos.tick

\* The for loop of Song::position_from_tick: <<section_idx, remaining>>.
RECURSIVE find_section(_, _, _, _, _)
find_section(sections, i, remaining, section_idx, per_bar) ==
    IF i >= Len(sections) THEN <<section_idx, remaining>>
    ELSE LET section_ticks == sections[i + 1] * per_bar
         IN  IF remaining < section_ticks THEN <<i, remaining>>
             ELSE find_section(sections, i + 1, remaining - section_ticks,
                               i + 1, per_bar)

\* A position_from_tick that does not clamp to the last section.
PositionPastEnd(a_song, tick, ppqn) ==
    LET per_bar == ppqn * a_song.beats_per_bar
        found == find_section(a_song.sections, 0, tick, 0, per_bar)
    IN  [section |-> found[1],
         bar |-> found[2] \div per_bar,
         beat |-> (found[2] % per_bar) \div ppqn,
         tick |-> (found[2] % per_bar) % ppqn]

\* Song::position_from_tick
position_from_tick(a_song, tick, ppqn) ==
    LET per_bar == ppqn * a_song.beats_per_bar
        found == find_section(a_song.sections, 0, tick, 0, per_bar)
        section_idx == IF found[1] >= Len(a_song.sections)
                       THEN saturating_sub(Len(a_song.sections), 1)
                       ELSE found[1]
    IN  [section |-> section_idx,
         bar |-> found[2] \div per_bar,
         beat |-> (found[2] % per_bar) \div ppqn,
         tick |-> (found[2] % per_bar) % ppqn]

\* LoopRegion::is_done
is_done(region) ==
    IF region.repeat_count # None
    THEN region.current_repeat >= region.repeat_count
    ELSE FALSE

\* SongPlayer::new(24)
SongInit ==
    /\ song = << >>
    /\ song_mode = "Stopped"
    /\ song_position_ticks = 0
    /\ current_section = 0
    /\ loop_region = << >>
    /\ player_beats_per_bar = 4
    /\ songOp = <<"new", 0, None>>

\* SongPlayer::stop on the loop region: current_repeat back to 0.
rewound(region) ==
    IF region = << >> THEN region
    ELSE <<[region[1] EXCEPT !.current_repeat = 0]>>

\* SongPlayer::load
Load ==
    \E a_song \in SongInputs :
        /\ player_beats_per_bar' = a_song.beats_per_bar
        /\ song' = <<a_song>>
        /\ song_mode' = "Stopped"
        /\ song_position_ticks' = 0
        /\ current_section' = 0
        /\ loop_region' = rewound(loop_region)
        /\ songOp' = <<"load", Len(a_song.sections), None>>
        /\ SongOnly

\* SongPlayer::unload
Unload ==
    /\ song' = << >>
    /\ song_mode' = "Stopped"
    /\ song_position_ticks' = 0
    /\ current_section' = 0
    /\ loop_region' = rewound(loop_region)
    /\ songOp' = <<"unload", 0, None>>
    /\ UNCHANGED player_beats_per_bar
    /\ SongOnly

\* SongPlayer::play
SongPlay ==
    /\ song_mode' = IF song # << >> THEN "Playing" ELSE song_mode
    /\ songOp' = <<"play", 0, None>>
    /\ UNCHANGED <<song, song_position_ticks, current_section, loop_region,
                   player_beats_per_bar>>
    /\ SongOnly

\* SongPlayer::stop
SongStop ==
    /\ song_mode' = "Stopped"
    /\ song_position_ticks' = 0
    /\ current_section' = 0
    /\ loop_region' = rewound(loop_region)
    /\ songOp' = <<"stop", 0, None>>
    /\ UNCHANGED <<song, player_beats_per_bar>>
    /\ SongOnly

\* SongPlayer::pause
SongPause ==
    /\ song_mode' = IF song_mode = "Playing" THEN "Stopped" ELSE song_mode
    /\ songOp' = <<"pause", 0, None>>
    /\ UNCHANGED <<song, song_position_ticks, current_section, loop_region,
                   player_beats_per_bar>>
    /\ SongOnly

\* SongPlayer::resume
SongResume ==
    /\ song_mode' = IF song # << >> /\ song_mode = "Stopped" THEN "Playing"
                    ELSE song_mode
    /\ songOp' = <<"resume", 0, None>>
    /\ UNCHANGED <<song, song_position_ticks, current_section, loop_region,
                   player_beats_per_bar>>
    /\ SongOnly

\* SongPlayer::goto_section
GotoSection ==
    \E section_index \in 0..MaxSections :
        /\ IF song # << >> /\ section_index < Len(song[1].sections)
           THEN /\ current_section' = section_index
                /\ song_position_ticks' =
                       to_ticks(at_section(section_index), Ppqn, player_beats_per_bar,
                                song[1].sections)
           ELSE UNCHANGED <<current_section, song_position_ticks>>
        /\ songOp' = <<"goto_section", section_index, None>>
        /\ UNCHANGED <<song, song_mode, loop_region, player_beats_per_bar>>
        /\ SongOnly

\* SongPlayer::set_loop
SetLoop ==
    \E input \in LoopInputs :
        /\ loop_region' = <<[start_section |-> input.start,
                             end_section |-> input.end,
                             repeat_count |-> input.count,
                             current_repeat |-> 0]>>
        /\ song_mode' = "Looping"
        /\ songOp' = <<"set_loop", 0, None>>
        /\ UNCHANGED <<song, song_position_ticks, current_section,
                       player_beats_per_bar>>
        /\ SongOnly

\* SongPlayer::clear_loop
ClearLoop ==
    /\ loop_region' = << >>
    /\ song_mode' = IF song_mode = "Looping" THEN "Playing" ELSE song_mode
    /\ songOp' = <<"clear_loop", 0, None>>
    /\ UNCHANGED <<song, song_position_ticks, current_section,
                   player_beats_per_bar>>
    /\ SongOnly

\* SongPlayer::update; songOp holds the ticks and the section returned.
SongUpdate ==
    \E ticks \in SongUpdateTicks :
        /\ song_position_ticks + ticks <= MaxSongTicks
        /\ loop_region # << >> => loop_region[1].current_repeat < MaxRepeats
        /\ IF song_mode = "Stopped" \/ song = << >>
           THEN /\ songOp' = <<"update", ticks, None>>
                /\ UNCHANGED <<song_mode, song_position_ticks,
                               current_section, loop_region>>
           ELSE IF song[1].sections = << >>
           THEN /\ songOp' = <<"update", ticks, None>>
                /\ UNCHANGED <<song_mode, song_position_ticks,
                               current_section, loop_region>>
           ELSE
             LET moved == song_position_ticks + ticks
                 new_position == position_from_tick(song[1], moved, Ppqn)
                 section_count == Len(song[1].sections)
                 section_lengths == song[1].sections
                 at_loop_end ==
                     /\ loop_region # << >>
                     /\ current_section = loop_region[1].end_section
                     /\ new_position.section > loop_region[1].end_section
                 counted ==
                     IF at_loop_end
                     THEN <<[loop_region[1] EXCEPT !.current_repeat = @ + 1]>>
                     ELSE loop_region
                 jumps == at_loop_end /\ ~is_done(counted[1])
                 finishes == at_loop_end /\ is_done(counted[1])
                 section == IF jumps THEN counted[1].start_section
                            ELSE new_position.section
                 ticks_now ==
                     IF jumps
                     THEN to_ticks(at_section(counted[1].start_section), Ppqn,
                                   player_beats_per_bar, section_lengths)
                     ELSE moved
             IN  IF new_position.section = current_section
                 THEN /\ song_position_ticks' = moved
                      /\ songOp' = <<"update", ticks, None>>
                      /\ UNCHANGED <<song_mode, current_section, loop_region>>
                 ELSE IF section >= section_count
                 THEN /\ song_mode' = "Stopped"
                      /\ song_position_ticks' = 0
                      /\ current_section' = 0
                      /\ loop_region' = rewound(counted)
                      /\ songOp' = <<"update", ticks, None>>
                 ELSE /\ song_mode' = IF finishes THEN "Playing" ELSE song_mode
                      /\ song_position_ticks' = ticks_now
                      /\ current_section' = section
                      /\ loop_region' = counted
                      /\ songOp' = <<"update", ticks, section>>
        /\ UNCHANGED <<song, player_beats_per_bar>>
        /\ SongOnly

SongNext ==
    \/ Load
    \/ Unload
    \/ SongPlay
    \/ SongStop
    \/ SongPause
    \/ SongResume
    \/ GotoSection
    \/ SetLoop
    \/ ClearLoop
    \/ SongUpdate


(***************************************************************************)
(* MIDI input (midi/input.rs): MidiMessage::parse, MidiLearnCapture and    *)
(* the input port's callback, which runs on the MIDI thread while the      *)
(* control side calls start_learn, stop_learn, get_learned, is_learning    *)
(* and try_recv.  Every access to the learn state holds its mutex, so each *)
(* is one step; the callback is three steps per packet.  A MidiMessage is  *)
(* a record of its kind, channel and up to two data values.                *)
(***************************************************************************)
\* Packets delivered to the port: two control changes, a note on, a note on
\* of velocity 0, a program change, a timing clock, an empty packet.
PacketInputs ==
    {<<176, 1, 64>>, <<176, 1, 65>>, <<144, 60, 100>>, <<144, 60, 0>>,
     <<192, 5>>, <<248>>, << >>}

Message(kind, ch, d1, d2) ==
    [kind |-> kind, channel |-> ch, data1 |-> d1, data2 |-> d2]

\* MidiMessage::parse, an Option as a sequence of length <= 1
parse(data) ==
    IF Len(data) = 0 THEN << >>
    ELSE LET status == data[1]
             msg_type == status - (status % 16)
             ch == status % 16
         IN CASE status = 248 -> <<Message("TimingClock", 0, 0, 0)>>
              [] status = 250 -> <<Message("Start", 0, 0, 0)>>
              [] status = 251 -> <<Message("Continue", 0, 0, 0)>>
              [] status = 252 -> <<Message("Stop", 0, 0, 0)>>
              [] msg_type = 128 /\ Len(data) >= 3 ->
                     <<Message("NoteOff", ch, data[2] % 128, data[3] % 128)>>
              [] msg_type = 144 /\ Len(data) >= 3 ->
                     IF data[3] % 128 = 0
                     THEN <<Message("NoteOff", ch, data[2] % 128, 0)>>
                     ELSE <<Message("NoteOn", ch, data[2] % 128, data[3] % 128)>>
              [] msg_type = 176 /\ Len(data) >= 3 ->
                     <<Message("ControlChange", ch, data[2] % 128,
                               data[3] % 128)>>
              [] msg_type = 192 /\ Len(data) >= 2 ->
                     <<Message("ProgramChange", ch, data[2] % 128, 0)>>
              [] msg_type = 224 /\ Len(data) >= 3 ->
                     <<Message("PitchBend", ch,
                               (data[3] * 128 + data[2]) - 8192, 0)>>
              [] msg_type = 208 /\ Len(data) >= 2 ->
                     <<Message("ChannelAftertouch", ch, data[2] % 128, 0)>>
              [] msg_type = 160 /\ Len(data) >= 3 ->
                     <<Message("PolyAftertouch", ch, data[2] % 128,
                               data[3] % 128)>>
              [] OTHER -> <<Message("Unknown", 0, status, 0)>>

\* The kinds MidiLearnCapture::capture takes.
LearnKinds == {"ControlChange", "NoteOn", "NoteOff", "ProgramChange"}

LearnInit ==
    /\ learn_active = FALSE
    /\ learn_message = << >>
    /\ cb_pc = "idle"
    /\ cb_msg = << >>
    /\ receiver = << >>
    /\ learn_hist = [started |-> FALSE, stopped |-> FALSE, first |-> << >>]
    /\ learnOp = <<"new">>

\* A capture that stores the message and goes on learning.
CaptureStaysActive(message) ==
    IF ~learn_active
    THEN [active |-> learn_active, message |-> learn_message, result |-> FALSE]
    ELSE IF message.kind \in LearnKinds
         THEN [active |-> TRUE, message |-> <<message>>, result |-> TRUE]
         ELSE [active |-> learn_active, message |-> learn_message,
               result |-> FALSE]

\* MidiLearnCapture::capture: the fields it leaves and what it returns
capture(message) ==
    IF ~learn_active
    THEN [active |-> learn_active, message |-> learn_message, result |-> FALSE]
    ELSE IF message.kind \in LearnKinds
         THEN [active |-> FALSE, message |-> <<message>>, result |-> TRUE]
         ELSE [active |-> learn_active, message |-> learn_message,
               result |-> FALSE]

CallbackQuiet == UNCHANGED <<cb_pc, cb_msg>>

\* MidiInput::start_learn, MidiLearnCapture::start
StartLearn ==
    /\ learn_active' = TRUE
    /\ learn_message' = << >>
    /\ learn_hist' = [started |-> TRUE, stopped |-> FALSE, first |-> << >>]
    /\ learnOp' = <<"start_learn">>
    /\ CallbackQuiet
    /\ UNCHANGED receiver
    /\ LearnOnly

\* MidiInput::stop_learn, MidiLearnCapture::stop
StopLearn ==
    /\ learn_active' = FALSE
    /\ learn_hist' = [learn_hist EXCEPT
                          !.stopped = @ \/ learn_hist.first = << >>]
    /\ learnOp' = <<"stop_learn">>
    /\ CallbackQuiet
    /\ UNCHANGED <<learn_message, receiver>>
    /\ LearnOnly

\* MidiInput::get_learned
GetLearned ==
    /\ learnOp' = <<"get_learned", learn_message>>
    /\ CallbackQuiet
    /\ UNCHANGED <<learn_active, learn_message, receiver, learn_hist>>
    /\ LearnOnly

\* MidiInput::is_learning
IsLearning ==
    /\ learnOp' = <<"is_learning", learn_active>>
    /\ CallbackQuiet
    /\ UNCHANGED <<learn_active, learn_message, receiver, learn_hist>>
    /\ LearnOnly

\* MidiInput::try_recv
TryRecv ==
    /\ learnOp' = <<"try_recv", IF receiver = << >> THEN << >>
                                ELSE <<Head(receiver)>>>>
    /\ receiver' = IF receiver = << >> THEN << >> ELSE Tail(receiver)
    /\ CallbackQuiet
    /\ UNCHANGED <<learn_active, learn_message, learn_hist>>
    /\ LearnOnly

\* MidiInput::recv_all
RecvAll ==
    /\ learnOp' = <<"recv_all", receiver>>
    /\ receiver' = << >>
    /\ CallbackQuiet
    /\ UNCHANGED <<learn_active, learn_message, learn_hist>>
    /\ LearnOnly

\* The callback takes a packet and parses it; a packet that does not parse
\* is skipped.
CallbackParse ==
    \E data \in PacketInputs :
        /\ cb_pc = "idle"
        /\ Len(receiver) < MaxReceived
        /\ IF parse(data) = << >>
           THEN CallbackQuiet
           ELSE cb_pc' = "learn" /\ cb_msg' = parse(data)
        /\ learnOp' = <<"packet", data>>
        /\ UNCHANGED <<learn_active, learn_message, receiver, learn_hist>>
        /\ LearnOnly

\* The callback locks the learn state and calls capture.
CallbackLearn ==
    /\ cb_pc = "learn"
    /\ learn_active' = capture(cb_msg[1]).active
    /\ learn_message' = capture(cb_msg[1]).message
    /\ learn_hist' =
           IF /\ learn_hist.started
              /\ learn_hist.first = << >>
              /\ cb_msg[1].kind \in LearnKinds
           THEN [learn_hist EXCEPT !.first = cb_msg]
           ELSE learn_hist
    /\ learnOp' = <<"capture", cb_msg[1], capture(cb_msg[1]).result>>
    /\ cb_pc' = "sync"
    /\ UNCHANGED <<cb_msg, receiver>>
    /\ LearnOnly

\* The callback locks the clock sync and calls process.
CallbackSync ==
    /\ cb_pc = "sync"
    /\ tick_count < MaxPulses
    /\ tick_count' = process(cb_msg[1].kind).tick_count
    /\ running' = process(cb_msg[1].kind).running
    /\ learnOp' = <<"process", cb_msg[1]>>
    /\ cb_pc' = "send"
    /\ UNCHANGED <<cb_msg, receiver, learn_active, learn_message, learn_hist>>
    /\ UNCHANGED <<enabled, clkOp>>
    /\ ClockQuiet
    /\ LearnSyncOnly

\* The callback sends the message to the receiver.
CallbackSend ==
    /\ cb_pc = "send"
    /\ receiver' = Append(receiver, cb_msg[1])
    /\ learnOp' = <<"send", cb_msg[1]>>
    /\ cb_pc' = "idle"
    /\ cb_msg' = << >>
    /\ UNCHANGED <<learn_active, learn_message, learn_hist>>
    /\ LearnOnly

LearnNext ==
    \/ StartLearn
    \/ StopLearn
    \/ GetLearned
    \/ IsLearning
    \/ TryRecv
    \/ RecvAll
    \/ CallbackParse
    \/ CallbackLearn
    \/ CallbackSync
    \/ CallbackSend


(***************************************************************************)
(* QuantizeMode::ticks_until (sequencer/trigger.rs) asked of a timing of   *)
(* any PPQN, time signature and position.                                  *)
(***************************************************************************)
\* Pulses per quarter note and numerators of the time signature tried.
QuantizePpqns == {1, 6, 24}

QuantizeBeatsPerBar == {1, 3, 4, 5}

\* SequencerTiming::default and QuantizeMode::default
QuantInit ==
    /\ quant_timing = [position_ticks |-> 0, ppqn |-> Ppqn,
                       beats_per_bar |-> BeatsPerBar]
    /\ quant_mode = [kind |-> "Bar", n |-> 0]
    /\ quant_ticks = None

\* A SequencerTiming of some PPQN and time signature, at position 0.
QuantTiming ==
    \E p \in QuantizePpqns, b \in QuantizeBeatsPerBar :
        /\ quant_timing' = [position_ticks |-> 0, ppqn |-> p,
                            beats_per_bar |-> b]
        /\ quant_ticks' = None
        /\ UNCHANGED quant_mode
        /\ QuantOnly

\* SequencerTiming::advance
QuantAdvance ==
    \E ticks \in {1, 6} :
        /\ quant_timing.position_ticks + ticks <= MaxPosition
        /\ quant_timing' = [quant_timing EXCEPT !.position_ticks = @ + ticks]
        /\ quant_ticks' = None
        /\ UNCHANGED quant_mode
        /\ QuantOnly

\* quantize.ticks_until(&timing)
Quantize ==
    \E quantize \in QuantizeModes :
        /\ quant_mode' = quantize
        /\ quant_ticks' = ticks_until(quantize, quant_timing)
        /\ UNCHANGED quant_timing
        /\ QuantOnly

QuantNext ==
    \/ QuantTiming
    \/ QuantAdvance
    \/ Quantize


(***************************************************************************)
(* MidiRecorder (recording/capture.rs).  A recorder made with              *)
(* MidiRecorder::new(RecorderPpqn); active_notes is the set of the map's   *)
(* values, at most one for a (ch, note) key.                          *)
(***************************************************************************)
RecorderPpqn == 1
RecordChannels == {0}
RecordNotes == {60}
RecordVelocities == {100}
RecordStarts == {0, 1}
RecordTicks == {1, 3}
LoopLengths == {0, 4}
CountInBars == {0, 1}
ChannelFilters == {None, 1}
RecordModes == {"Replace", "Overdub", "Punch"}

\* QuantizeSettings, the strength in tenths
QuantizeSettings(grid, strength, start, end) ==
    [grid |-> grid, strength |-> strength, start |-> start, end |-> end]

QuantizeSettingsDefault == QuantizeSettings(0, 10, TRUE, FALSE)

QuantizeInputs ==
    {QuantizeSettingsDefault, QuantizeSettings(4, 10, TRUE, FALSE),
     QuantizeSettings(4, 5, TRUE, TRUE)}

\* QuantizeSettings::quantize; the cast of the f64 to u64 drops the fraction
quantize_tick(settings, tick) ==
    IF settings.grid = 0 \/ settings.strength = 0 THEN tick
    ELSE LET grid == settings.grid
             quantized == ((tick + grid \div 2) \div grid) * grid
         IN  IF settings.strength >= 10 THEN quantized
             ELSE LET diff == quantized - tick
                  IN  (tick * 10 + diff * settings.strength) \div 10

RecordedNote(ch, note, velocity, start_tick, duration) ==
    [channel |-> ch, note |-> note, velocity |-> velocity,
     start_tick |-> start_tick, duration |-> duration]

ActiveNote(ch, note, velocity, start_tick) ==
    [channel |-> ch, note |-> note, velocity |-> velocity,
     start_tick |-> start_tick]

\* PunchRegion::new
PunchRegion(in_tick, out_tick) ==
    [in_tick |-> IF in_tick < out_tick THEN in_tick ELSE out_tick,
     out_tick |-> IF out_tick > in_tick THEN out_tick ELSE in_tick]

PunchInputs == {<< >>, <<PunchRegion(2, 6)>>}

\* PunchRegion::contains
region_contains(region, tick) == tick >= region.in_tick /\ tick < region.out_tick

\* The entry of active_notes under a key, as a set of at most one element.
active_at(ch, note) ==
    {a \in active_notes : a.channel = ch /\ a.note = note}

should_record ==
    IF rec_state # "Recording" THEN FALSE
    ELSE IF rec_mode = "Punch"
         THEN IF punch_region # << >>
              THEN region_contains(punch_region[1], rec_position)
              ELSE FALSE
         ELSE TRUE

RecInit ==
    /\ rec_state = "Idle"
    /\ rec_mode = "Replace"
    /\ rec_notes = << >>
    /\ active_notes = {}
    /\ rec_position = 0
    /\ start_position = 0
    /\ rec_loop_length = 0
    /\ rec_quantize = QuantizeSettingsDefault
    /\ punch_region = << >>
    /\ count_in_bars = 0
    /\ count_in_remaining = 0
    /\ channel_filter = None
    /\ rec_failed = FALSE
    /\ rec_held = {}
    /\ recOp = <<"new", None, None>>

RecConfig == <<rec_mode, rec_loop_length, rec_quantize, punch_region,
               count_in_bars, channel_filter>>

RecRun == <<rec_state, rec_notes, active_notes, rec_position, start_position,
            count_in_remaining, rec_failed, rec_held>>

\* The settings are explored on a recorder at rest: Idle, with no note
\* recorded or held.
AtRest == rec_state = "Idle" /\ rec_notes = << >> /\ active_notes = {}

RecSetMode ==
    \E m \in RecordModes :
        /\ ~rec_failed
        /\ AtRest
        /\ rec_mode' = m
        /\ recOp' = <<"call", None, None>>
        /\ UNCHANGED <<rec_loop_length, rec_quantize, punch_region,
                       count_in_bars, channel_filter>>
        /\ UNCHANGED RecRun
        /\ RecOnly

SetQuantize ==
    \E settings \in QuantizeInputs :
        /\ ~rec_failed
        /\ AtRest
        /\ rec_quantize' = settings
        /\ recOp' = <<"call", None, None>>
        /\ UNCHANGED <<rec_mode, rec_loop_length, punch_region, count_in_bars,
                       channel_filter>>
        /\ UNCHANGED RecRun
        /\ RecOnly

SetLoopLength ==
    \E ticks \in LoopLengths :
        /\ ~rec_failed
        /\ AtRest
        /\ rec_loop_length' = ticks
        /\ recOp' = <<"call", None, None>>
        /\ UNCHANGED <<rec_mode, rec_quantize, punch_region, count_in_bars,
                       channel_filter>>
        /\ UNCHANGED RecRun
        /\ RecOnly

SetPunchRegion ==
    \E region \in PunchInputs :
        /\ ~rec_failed
        /\ AtRest
        /\ punch_region' = region
        /\ recOp' = <<"call", None, None>>
        /\ UNCHANGED <<rec_mode, rec_loop_length, rec_quantize, count_in_bars,
                       channel_filter>>
        /\ UNCHANGED RecRun
        /\ RecOnly

SetCountIn ==
    \E bars \in CountInBars :
        /\ ~rec_failed
        /\ AtRest
        /\ count_in_bars' = bars
        /\ recOp' = <<"call", None, None>>
        /\ UNCHANGED <<rec_mode, rec_loop_length, rec_quantize, punch_region,
                       channel_filter>>
        /\ UNCHANGED RecRun
        /\ RecOnly

SetChannelFilter ==
    \E ch \in ChannelFilters :
        /\ ~rec_failed
        /\ AtRest
        /\ channel_filter' = ch
        /\ recOp' = <<"call", None, None>>
        /\ UNCHANGED <<rec_mode, rec_loop_length, rec_quantize, punch_region,
                       count_in_bars>>
        /\ UNCHANGED RecRun
        /\ RecOnly

TakeNotes ==
    /\ ~rec_failed
    /\ rec_notes' = << >>
    /\ recOp' = <<"call", None, None>>
    /\ UNCHANGED <<rec_state, active_notes, rec_position, start_position,
                   count_in_remaining, rec_failed, rec_held>>
    /\ UNCHANGED RecConfig
    /\ RecOnly

RecClear ==
    /\ ~rec_failed
    /\ rec_notes' = << >>
    /\ active_notes' = {}
    /\ rec_held' = {}
    /\ recOp' = <<"call", None, None>>
    /\ UNCHANGED <<rec_state, rec_position, start_position,
                   count_in_remaining, rec_failed>>
    /\ UNCHANGED RecConfig
    /\ RecOnly

Arm ==
    /\ ~rec_failed
    /\ rec_state' = IF rec_state = "Idle" THEN "Armed" ELSE rec_state
    /\ recOp' = <<"call", None, None>>
    /\ UNCHANGED <<rec_notes, active_notes, rec_position, start_position,
                   count_in_remaining, rec_failed, rec_held>>
    /\ UNCHANGED RecConfig
    /\ RecOnly

Disarm ==
    /\ ~rec_failed
    /\ rec_state' = IF rec_state = "Armed" THEN "Idle" ELSE rec_state
    /\ recOp' = <<"call", None, None>>
    /\ UNCHANGED <<rec_notes, active_notes, rec_position, start_position,
                   count_in_remaining, rec_failed, rec_held>>
    /\ UNCHANGED RecConfig
    /\ RecOnly

RecStart ==
    \E pos \in RecordStarts :
        /\ ~rec_failed
        /\ IF rec_state \in {"Idle", "Armed"}
           THEN /\ rec_notes' = IF rec_mode = "Replace" THEN << >>
                                ELSE rec_notes
                /\ start_position' = pos
                /\ rec_position' = pos
                /\ active_notes' = {}
                /\ rec_held' = {}
                /\ IF count_in_bars > 0
                   THEN LET bar_ticks == RecorderPpqn * BeatsPerBar
                        IN  /\ count_in_remaining' = count_in_bars * bar_ticks
                            /\ rec_state' = "CountIn"
                   ELSE /\ rec_state' = "Recording"
                        /\ UNCHANGED count_in_remaining
           ELSE UNCHANGED <<rec_state, rec_notes, active_notes, rec_position,
                            start_position, count_in_remaining, rec_held>>
        /\ recOp' = <<"call", None, None>>
        /\ UNCHANGED rec_failed
        /\ UNCHANGED RecConfig
        /\ RecOnly

\* The orders in which drain() can hand out the entries of the map.
DrainOrders(S) ==
    {order \in [1..Cardinality(S) -> S] :
         \A i, j \in 1..Cardinality(S) : i # j => order[i] # order[j]}

\* The notes stop() pushes for the drained entries, in their order.  A start
\* tick below start_position makes the subtraction of a release build wrap:
\* the negative start_tick d of the pushed note stands for 2^64 + d.
RECURSIVE closed_notes(_, _)
closed_notes(order, pos) ==
    IF order = << >> THEN << >>
    ELSE LET active == Head(order)
             duration == saturating_sub(pos, active.start_tick)
         IN  (IF duration > 0
              THEN <<RecordedNote(active.channel, active.note, active.velocity,
                                  active.start_tick - start_position,
                                  duration)>>
              ELSE << >>) \o closed_notes(Tail(order), pos)

\* stop() subtracts below zero: a panic in a build with overflow checks.
StopOverflows ==
    \E active \in active_notes :
        /\ saturating_sub(rec_position, active.start_tick) > 0
        /\ active.start_tick < start_position

RecStop ==
    \E order \in DrainOrders(active_notes) :
        /\ ~rec_failed
        /\ Len(rec_notes) + Cardinality(active_notes) <= MaxRecorded
        /\ \/ /\ rec_notes' = rec_notes \o closed_notes(order, rec_position)
              /\ active_notes' = {}
              /\ rec_held' = {}
              /\ rec_state' = "Idle"
              /\ UNCHANGED rec_failed
           \/ /\ StopOverflows
              /\ rec_failed' = TRUE
              /\ UNCHANGED <<rec_notes, active_notes, rec_held, rec_state>>
        /\ recOp' = <<"stop", None, None>>
        /\ UNCHANGED <<rec_position, start_position, count_in_remaining>>
        /\ UNCHANGED RecConfig
        /\ RecOnly

RecPause ==
    /\ ~rec_failed
    /\ rec_state' = IF rec_state = "Recording" THEN "Paused" ELSE rec_state
    /\ recOp' = <<"call", None, None>>
    /\ UNCHANGED <<rec_notes, active_notes, rec_position, start_position,
                   count_in_remaining, rec_failed, rec_held>>
    /\ UNCHANGED RecConfig
    /\ RecOnly

RecResume ==
    /\ ~rec_failed
    /\ rec_state' = IF rec_state = "Paused" THEN "Recording" ELSE rec_state
    /\ recOp' = <<"call", None, None>>
    /\ UNCHANGED <<rec_notes, active_notes, rec_position, start_position,
                   count_in_remaining, rec_failed, rec_held>>
    /\ UNCHANGED RecConfig
    /\ RecOnly

RecTick ==
    \E ticks \in RecordTicks :
        /\ ~rec_failed
        /\ rec_position + ticks <= MaxRecordTicks
        /\ LET counted == rec_state = "CountIn" /\ ticks >= count_in_remaining
               st == IF counted THEN "Recording" ELSE rec_state
               start == IF counted THEN rec_position + ticks
                        ELSE start_position
               pos == rec_position + ticks
               relative_pos == pos - start
           IN  /\ rec_state' = st
               /\ start_position' = start
               /\ count_in_remaining' =
                      IF rec_state # "CountIn" THEN count_in_remaining
                      ELSE IF counted THEN 0
                      ELSE count_in_remaining - ticks
               /\ rec_position' =
                      IF /\ rec_loop_length > 0
                         /\ st = "Recording"
                         /\ relative_pos >= rec_loop_length
                      THEN start + (relative_pos % rec_loop_length)
                      ELSE pos
        /\ rec_held' = {<<a.channel, a.note>> : a \in active_notes}
        /\ recOp' = <<"call", None, None>>
        /\ UNCHANGED <<rec_notes, active_notes, rec_failed>>
        /\ UNCHANGED RecConfig
        /\ RecOnly

NoteOn ==
    \E ch \in RecordChannels, note \in RecordNotes,
       velocity \in RecordVelocities :
        /\ ~rec_failed
        /\ IF (channel_filter # None /\ ch # channel_filter)
              \/ ~should_record
           THEN UNCHANGED <<active_notes, rec_held>>
           ELSE LET start_tick == IF rec_quantize.start
                                  THEN quantize_tick(rec_quantize, rec_position)
                                  ELSE rec_position
                IN  /\ active_notes' =
                           (active_notes \ active_at(ch, note))
                               \cup {ActiveNote(ch, note, velocity,
                                                start_tick)}
                    /\ rec_held' = rec_held \ {<<ch, note>>}
        /\ recOp' = <<"note_on", ch, note>>
        /\ UNCHANGED <<rec_state, rec_notes, rec_position, start_position,
                       count_in_remaining, rec_failed>>
        /\ UNCHANGED RecConfig
        /\ RecOnly

NoteOff ==
    \E ch \in RecordChannels, note \in RecordNotes :
        /\ ~rec_failed
        /\ Len(rec_notes) < MaxRecorded
        /\ IF (channel_filter # None /\ ch # channel_filter)
              \/ active_at(ch, note) = {}
           THEN UNCHANGED <<active_notes, rec_notes, rec_held>>
           ELSE LET active == CHOOSE a \in active_at(ch, note) : TRUE
                    end_tick == IF rec_quantize.end
                                THEN quantize_tick(rec_quantize, rec_position)
                                ELSE rec_position
                    duration == saturating_sub(end_tick, active.start_tick)
                IN  /\ active_notes' = active_notes \ {active}
                    /\ rec_held' = rec_held \ {<<ch, note>>}
                    /\ rec_notes' =
                           IF duration > 0
                           THEN Append(rec_notes,
                                    RecordedNote(active.channel, active.note,
                                        active.velocity,
                                        saturating_sub(active.start_tick,
                                                       start_position),
                                        duration))
                           ELSE rec_notes
        /\ recOp' = <<"note_off", ch, note>>
        /\ UNCHANGED <<rec_state, rec_position, start_position,
                       count_in_remaining, rec_failed>>
        /\ UNCHANGED RecConfig
        /\ RecOnly

RecNext ==
    \/ RecSetMode
    \/ SetQuantize
    \/ SetLoopLength
    \/ SetPunchRegion
    \/ SetCountIn
    \/ SetChannelFilter
    \/ TakeNotes
    \/ RecClear
    \/ Arm
    \/ Disarm
    \/ RecStart
    \/ RecStop
    \/ RecPause
    \/ RecResume
    \/ RecTick
    \/ NoteOn
    \/ NoteOff

(***************************************************************************)
(* Specifications.                                                         *)
(***************************************************************************)
SchedNext ==
    \/ Schedule
    \/ SetTempo
    \/ Start
    \/ Stop
    \/ Pause
    \/ Resume
    \/ Poll
    \/ PollWindow
    \/ Clear
    \/ Seek
    \/ Elapse

Init ==
    /\ SchedInit
    /\ ClipInit
    /\ TrackInit
    /\ MgrInit
    /\ TrigInit
    /\ ClockInit
    /\ ArrInit
    /\ FollowInit
    /\ GenInit
    /\ SongInit
    /\ LearnInit
    /\ QuantInit
    /\ RecInit

SpecSched == Init /\ [][SchedNext]_vars

SpecClip == Init /\ [][ClipNext]_vars

SpecClipNotes == Init /\ [][ClipNotesNext]_vars

SpecTrack == Init /\ [][TrackNext]_vars

SpecMgr == Init /\ [][MgrNext]_vars

SpecMgrMut == Init /\ [][MgrMutNext]_vars

SpecTrig == Init /\ [][TrigNext]_vars

SpecClock == Init /\ [][ClockNext]_vars

SpecSync == Init /\ [][SyncNext]_vars

SpecArrange == Init /\ [][ArrangeNext]_vars

SpecSeqScene == Init /\ [][SeqSceneNext]_vars

SpecFollow == Init /\ [][FollowNext]_vars

SpecDrums == Init /\ [][DrumNext]_vars

SpecDrumSplit == Init /\ [][DrumSplitNext]_vars

SpecEuclid == Init /\ [][EuclidNext]_vars

SpecSong == Init /\ [][SongNext]_vars

\* The timing loop goes on calling update().
SpecSongLive == Init /\ [][SongNext]_vars /\ WF_vars(SongUpdate)

SpecLearn == Init /\ [][LearnNext]_vars

SpecQuantize == Init /\ [][QuantNext]_vars

SpecRecord == Init /\ [][RecNext]_vars

(***************************************************************************)
(* Scheduler properties.                                                   *)
(***************************************************************************)
StripTimes(q) == BagOfAll(LAMBDA e : [e EXCEPT !.time_micros = 0], q)

\* C1: the events returned by one poll() or poll_window() call are in
\* nondecreasing time_micros order, whatever schedule, set_tempo, seek,
\* start, pause and resume calls came before.
C1_PollOrdered ==
    \A i \in 1..(Len(polled) - 1) : polled[i].time_micros <= polled[i + 1].time_micros

C1_Witness ==
    /\ Len(polled) >= 2
    /\ polled[1].time_micros < polled[Len(polled)].time_micros
    /\ tempo # DefaultTempo

\* C2: a step of set_tempo leaves every queued event with
\* time_micros = ticks_to_micros(time_ticks) under the tempo now in force,
\* changes no time_ticks and no payload, and adds or loses no event.
C2_TempoReconsistency ==
    [][schedOp'[1] = "set_tempo" =>
          /\ \A e \in BagToSet(queue') :
                 e.time_micros = ticks_to_micros(tempo', e.time_ticks)
          /\ StripTimes(queue') = StripTimes(queue)]_vars

C2_Witness ==
    /\ schedOp[1] = "set_tempo"
    /\ BagCardinality(queue) >= 2
    /\ tempo # DefaultTempo
    /\ \E e \in BagToSet(queue) : e.time_micros > 0

\* C6: while the scheduler plays, position_micros does not decrease from one
\* poll to the next when only schedule, set_tempo and seeks to a later tick
\* come between the two polls.
C6_PollPositionMonotonic ==
    [][(pollPos # None /\ pollPos' # None) => pollPos' >= pollPos]_vars

\* C7: after pause() then resume(), every poll reports a position_micros at
\* or after the position frozen by pause().
C7_ResumeContinues ==
    (playing /\ frozenPos # None /\ schedOp[1] = "poll") => position_micros >= frozenPos

\* C10: a step of seek(tick) removes exactly the queued events with
\* time_ticks < tick; every other event stays, with the same ticks, times
\* and payload.
C10_SeekDropsEarlier ==
    [][schedOp'[1] = "seek" =>
          \A e \in BagToSet(queue) \cup BagToSet(queue') :
              CopiesIn(e, queue') =
                  IF e.time_ticks >= schedOp'[2] THEN CopiesIn(e, queue) ELSE 0]_vars

C10_Witness ==
    /\ schedOp = <<"seek", 2>>
    /\ \E e \in BagToSet(queue) : e.time_ticks = 2
    /\ \E e \in BagToSet(queue) : e.time_ticks = 6

\* C31: right after seek(x), position_ticks() is x and the playing flag is
\* what it was before the call, for a playing, a paused and a stopped
\* scheduler.
C31_SeekSetsPosition ==
    [][schedOp'[1] = "seek" =>
           /\ position_ticks' = schedOp'[2]
           /\ playing' = playing]_vars

\* A playing scheduler was sought to tick 6 and plays on from there.
C31_Witness ==
    /\ schedOp = <<"seek", 6>>
    /\ playing
    /\ start_time = now
    /\ position_ticks = 6

(***************************************************************************)
(* Clip properties.                                                        *)
(***************************************************************************)
ClipIsPlaying == state = "Playing" \/ state = "Stopping"

\* C3: whenever the clip is Playing or Stopping, its position satisfies
\* loop_start <= position < effective_loop_end.
C3_PositionInLoop ==
    (ClipIsPlaying /\ ~panicked) =>
        (loop_start <= position /\ position < effective_loop_end)

\* C8: a Loop clip Playing from position initial, after generate() calls
\* whose windows sum to window_sum, is at
\* loop_start + (initial - loop_start + window_sum) mod loop_length.
C8_WrapConservation ==
    (/\ mode.kind = "Loop"
     /\ state = "Playing"
     /\ ~panicked
     /\ window_sum > 0
     /\ effective_loop_end > loop_start) =>
        position = loop_start +
            ((initial - loop_start + window_sum) % (effective_loop_end - loop_start))

(***************************************************************************)
(* Track properties.                                                       *)
(***************************************************************************)
IsNoteOffOf(off, on, duration) ==
    /\ off.message_type = "NoteOff"
    /\ off.channel = on.channel
    /\ off.data1 = on.data1
    /\ off.track_index = on.track_index
    /\ off.time_ticks = on.time_ticks + duration

\* C5 as stated: for every NoteOn returned by generate_scheduled exactly one
\* NoteOff of the result has its channel, note and track index and
\* time_ticks = NoteOn's time_ticks + the source event's duration_ticks, and
\* every NoteOff has its NoteOn.
C5_ExactlyOneNoteOff ==
    /\ \A k \in 1..Len(generated) :
           2 * k <= Len(scheduled) =>
               Cardinality({j \in 1..Len(scheduled) :
                   IsNoteOffOf(scheduled[j], scheduled[2 * k - 1],
                               generated[k].duration_ticks)}) = 1
    /\ \A j \in 1..Len(scheduled) :
           scheduled[j].message_type = "NoteOff" =>
               \E k \in 1..Len(generated) :
                   /\ 2 * k <= Len(scheduled)
                   /\ scheduled[2 * k - 1].message_type = "NoteOn"
                   /\ IsNoteOffOf(scheduled[j], scheduled[2 * k - 1],
                                  generated[k].duration_ticks)

\* C5, amended: generate_scheduled returns, for each event of Track::generate
\* in order, a NoteOn at base_tick + start_tick directly followed by its
\* NoteOff with the same channel, note and track index at the NoteOn's
\* time_ticks + duration_ticks, and nothing else; so NoteOns and NoteOffs
\* pair one to one.
C5_NoteOffPairing ==
    /\ Len(scheduled) = 2 * Len(generated)
    /\ \A k \in 1..Len(generated) :
           LET on == scheduled[2 * k - 1]
               off == scheduled[2 * k]
           IN /\ on.message_type = "NoteOn"
              /\ on.time_ticks = base_tick + generated[k].start_tick
              /\ on.channel = generated[k].channel
              /\ on.data1 = generated[k].note
              /\ on.track_index = index
              /\ IsNoteOffOf(off, on, generated[k].duration_ticks)

C5_Witness ==
    /\ Len(scheduled) >= 4
    /\ \E k \in 1..Len(generated) : generated[k].duration_ticks > 0
    /\ \E j, k \in 1..Len(scheduled) :
           /\ j # k
           /\ scheduled[j].message_type = "NoteOn"
           /\ scheduled[k].message_type = "NoteOn"
           /\ scheduled[j].data1 # scheduled[k].data1
    /\ transpose # 0
    /\ channel # 0

(***************************************************************************)
(* TrackManager and TriggerQueue properties.                               *)
(***************************************************************************)
\* C4: after add_track, set_track_state, toggle_mute and toggle_solo calls,
\* if some track is Soloed then should_output(i) holds exactly for the
\* Soloed tracks, and otherwise exactly for the tracks that are not Muted.
C4_SoloExclusivity ==
    \A i \in 0..(Len(tracks) - 1) :
        should_output(i) <=>
            IF \E k \in 1..Len(tracks) : tracks[k] = "Soloed"
            THEN tracks[i + 1] = "Soloed"
            ELSE tracks[i + 1] # "Muted"

C4_Witness ==
    /\ \E k \in 1..Len(tracks) : tracks[k] = "Soloed"
    /\ \E k \in 1..Len(tracks) : tracks[k] = "Muted"
    /\ \E i \in 0..(Len(tracks) - 1) : tracks[i + 1] = "Active" /\ ~should_output(i)

\* C32: has_solo is "some track is Soloed" after every public operation of
\* the manager, those on a track got from track_mut() or iter_mut() included,
\* and should_output goes by the tracks' states.
C32_SoloFlagTracksStates ==
    /\ has_solo = (\E k \in 1..Len(tracks) : tracks[k] = "Soloed")
    /\ \A i \in 0..(Len(tracks) - 1) :
           should_output(i) <=>
               IF \E k \in 1..Len(tracks) : tracks[k] = "Soloed"
               THEN tracks[i + 1] = "Soloed"
               ELSE tracks[i + 1] # "Muted"

Due(current_tick, t) == t.trigger_tick <= current_tick

\* C9: a step of TriggerQueue::poll(t) returns exactly the pending triggers
\* with trigger_tick <= t, in nondecreasing trigger_tick order, and leaves
\* exactly those with trigger_tick > t pending.
C9_PollReturnsDue ==
    [][trigOp'[1] = "poll" =>
          LET t == trigOp'[2] IN
          /\ triggered' = SelectSeq(trig_queue, LAMBDA x : Due(t, x))
          /\ trig_queue' = SelectSeq(trig_queue, LAMBDA x : ~Due(t, x))
          /\ \A k \in 1..(Len(triggered') - 1) :
                 triggered'[k].trigger_tick <= triggered'[k + 1].trigger_tick]_vars

C9_Witness ==
    /\ trigOp[1] = "poll"
    /\ Len(triggered) >= 2
    /\ triggered[1].trigger_tick < triggered[2].trigger_tick
    /\ trig_queue # << >>


(***************************************************************************)
(* Clip properties: Stopping, PingPong, LoopCount.                         *)
(***************************************************************************)
\* The window of a generate() step, 0 for any other step.
StepWindow == IF window_sum' > window_sum THEN window_sum' - window_sum ELSE 0

\* C11: a Stopping clip becomes Stopped by the generate() call that reaches a
\* loop boundary, forward (position + ticks >= effective_loop_end) or in
\* reverse (position < ticks, the code's "reached start"), in every mode.
C11_StoppingStopsAtBoundary ==
    [][(/\ state = "Stopping"
        /\ StepWindow > 0
        /\ ~panicked'
        /\ IF reverse THEN position < StepWindow
           ELSE position + StepWindow >= effective_loop_end)
       => state' = "Stopped"]_vars


\* C12: in PingPong mode a forward generate() that overshoots
\* effective_loop_end by k ticks sets reverse, increments loop_count and
\* leaves position = loop_end - k; a generate() under which reverse stays set
\* lowers position by its window.
C12_PingPongReflects ==
    [][(mode.kind = "PingPong" /\ ClipIsPlaying /\ StepWindow > 0) =>
          /\ (~reverse /\ position + StepWindow >= effective_loop_end) =>
                 LET k == position + StepWindow - effective_loop_end
                 IN /\ ~panicked'
                    /\ reverse'
                    /\ loop_count' = loop_count + 1
                    /\ position' = effective_loop_end - k
          /\ (reverse /\ reverse') => position' = position - StepWindow]_vars


\* C13: a LoopCount(n) clip started from its loop start is still playing only
\* while the windows generated so far cover fewer than n passes of the loop.
C13_LoopCountPasses ==
    (/\ mode.kind = "LoopCount"
     /\ initial = loop_start
     /\ window_sum > 0
     /\ ~panicked
     /\ ~reverse
     /\ effective_loop_end > loop_start
     /\ ClipIsPlaying)
    => window_sum < mode.n * (effective_loop_end - loop_start)


(***************************************************************************)
(* Clock properties.                                                       *)
(***************************************************************************)
\* C14: while external clock sync is enabled, a tick() of the internal clock
\* leaves pulse and beat alone and emits no clock pulse.
C14_TickSuppressed ==
    [][(enabled /\ clkOp' = "tick") =>
          /\ pulse' = pulse
          /\ beat' = beat
          /\ emitted' = "None"]_vars

\* C15: with external sync enabled, a clock pulse adds one to the count when
\* running and nothing otherwise, Start zeroes the count and runs, Continue
\* runs without zeroing, Stop halts; beat = count div 24, pulse = count mod
\* 24; with sync disabled no message changes anything.
C15_ExternalPulseCount ==
    [][clkOp' \in ClockMessages =>
          /\ enabled' = enabled
          /\ ~enabled => (tick_count' = tick_count /\ running' = running)
          /\ enabled =>
                 /\ clkOp' = "TimingClock" =>
                        /\ tick_count' = tick_count + (IF running THEN 1 ELSE 0)
                        /\ running' = running
                 /\ clkOp' = "Start" => (tick_count' = 0 /\ running')
                 /\ clkOp' = "Continue" => (tick_count' = tick_count /\ running')
                 /\ clkOp' = "Stop" => (tick_count' = tick_count /\ ~running')
                 /\ clkOp' = "NoteOn" =>
                        (tick_count' = tick_count /\ running' = running)
          /\ current_beat' * 24 + current_pulse' = tick_count'
          /\ current_pulse' \in 0..23]_vars

C15_Witness ==
    /\ enabled
    /\ ~running
    /\ clkOp = "Stop"
    /\ current_beat = 1
    /\ current_pulse = 3


\* C21: cancel_for_track(i) leaves no pending trigger of track i, and what
\* is left are exactly the triggers of the other tracks, each unchanged and
\* in the order they had: an order-preserving map places the new queue in the
\* old one, and none of the other tracks' triggers is missing.
C21_CancelForTrackKeepsOthers ==
    [][trigOp'[1] = "cancel_for_track" =>
          LET i == trigOp'[2]
              old == trig_queue
              new == trig_queue'
              others == {k \in 1..Len(old) : old[k].track_index # i}
          IN  /\ \A k \in 1..Len(new) : new[k].track_index # i
              /\ Len(new) = Cardinality(others)
              /\ \E place \in [1..Len(new) -> others] :
                     /\ \A k \in 1..Len(new) : new[k] = old[place[k]]
                     /\ \A j, k \in 1..Len(new) :
                            j < k => place[j] < place[k]]_vars

\* Three triggers were pending, one of them of track 0; cancel_for_track(0)
\* left the two of track 1.
C21_Witness ==
    /\ trigOp = <<"cancel_for_track", 0, 3>>
    /\ Len(trig_queue) = 2
    /\ trig_queue[1].trigger_tick < trig_queue[2].trigger_tick


C16_UnknownTargetNoEffect ==
    [][/\ (cmd'[1] = "trigger_part" /\ cmd'[2] \notin DOMAIN parts) =>
              /\ cmd'[3] = "false"
              /\ UNCHANGED <<parts, part_order, current_part, pending>>
       /\ (cmd'[1] = "launch_scene" /\ cmd'[2] >= Len(arr_scenes)) =>
              /\ cmd'[3] = "false"
              /\ UNCHANGED <<arr_scenes, arr_current_scene, arr_pending,
                             scene_start_tick>>
       /\ (cmd'[1] = "trigger_scene" /\ cmd'[2] >= Len(seq_scenes)) =>
              UNCHANGED <<seq_scenes, seq_current_scene, trig_queue>>]_vars

C16_Witness ==
    /\ SubSeq(cmd, 1, 3) = <<"trigger_part", "X", "false">>
    /\ current_part = <<"A">>
    /\ pending # << >>
    /\ arr_current_scene = 0
    /\ arr_pending # << >>
    /\ seq_current_scene = 0
    /\ trig_queue # << >>


\* The elements of seq at the positions P, in their order.
AtPositions(seq, P) ==
    [j \in 1..Cardinality(P) |->
        seq[CHOOSE p \in P : Cardinality({o \in P : o < p}) = j - 1]]

\* C22: trigger_scene with a valid index adds to the trigger queue exactly
\* one trigger per track of the scene, with the track's clip (or none) and
\* with the one trigger tick the scene's quantize mode gives at the current
\* position; the triggers that were pending stay as they were.
C22_SceneQueuesOnePerTrack ==
    [][(/\ cmd'[1] = "trigger_scene"
        /\ cmd'[2] < Len(seq_scenes)
        /\ trigOp'[1] = "queue") =>
          LET scene == seq_scenes[cmd'[2] + 1]
              timing == [position_ticks |-> cmd'[4], ppqn |-> Ppqn,
                         beats_per_bar |-> BeatsPerBar]
              tick == cmd'[4] + ticks_until(scene.quantize, timing)
              tracks_of == 1..Len(scene.clips)
              new == trig_queue'
          IN  /\ Len(new) = Len(trig_queue) + Len(scene.clips)
              /\ \E added \in SUBSET (1..Len(new)) :
                     /\ Cardinality(added) = Len(scene.clips)
                     /\ \A k \in tracks_of : \E p \in added :
                            /\ new[p].track_index = k - 1
                            /\ new[p].clip_index = scene.clips[k]
                            /\ new[p].trigger_tick = tick
                     /\ AtPositions(new, (1..Len(new)) \ added) = trig_queue
              /\ seq_current_scene' = cmd'[2]]_vars

\* The two-track scene (clip 1, no clip) was triggered at tick 50 while a
\* trigger was pending: two triggers for tick 96 joined the queue.
C22_Witness ==
    /\ cmd = <<"trigger_scene", 0, "unit", 50>>
    /\ trigOp[1] = "queue"
    /\ seq_scenes[1].clips = <<1, None>>
    /\ Len(trig_queue) = 3
    /\ \E p \in 1..3 : /\ trig_queue[p].track_index = 1
                       /\ trig_queue[p].clip_index = None
                       /\ trig_queue[p].trigger_tick = 96


\* C23: while a part transition (a scene launch) is pending, update(t) with
\* t before the scheduled tick leaves it pending and the current part
\* (scene) as it is, and the first update(t) with t at or after the scheduled
\* tick makes the target current and leaves nothing pending.
C23_PendingUntilScheduled ==
    [][/\ (cmd'[1] = "part_update" /\ pending # << >>) =>
              IF cmd'[2] < pending[1].scheduled_tick
              THEN UNCHANGED <<current_part, pending>>
              ELSE /\ current_part' = <<pending[1].target>>
                   /\ pending' = << >>
       /\ (cmd'[1] = "scene_update" /\ arr_pending # << >>) =>
              IF cmd'[2] < arr_pending[1].scheduled_tick
              THEN UNCHANGED <<arr_current_scene, arr_pending>>
              ELSE /\ arr_current_scene' = arr_pending[1].scene_index
                   /\ arr_pending' = << >>]_vars

\* update(96) made part A current and returned it, with nothing left
\* pending, while the scene launched for tick 96 has not been updated yet.
C23_Witness ==
    /\ cmd = <<"part_update", 96, "some">>
    /\ current_part = <<"A">>
    /\ pending = << >>
    /\ arr_pending # << >>
    /\ arr_pending[1].scheduled_tick = 96
    /\ arr_current_scene = None


\* C24: a NextBeat (NextBar) part requested at tick t becomes pending for
\* the first beat (bar) boundary strictly after t; requested on a boundary
\* it waits one full beat (bar).
C24_NextBoundaryStrictlyAfter ==
    [][(/\ cmd'[1] = "trigger_part"
        /\ cmd'[2] \in DOMAIN parts
        /\ parts[cmd'[2]].kind \in {"NextBeat", "NextBar"}) =>
          LET t == cmd'[4]
              unit == IF parts[cmd'[2]].kind = "NextBeat" THEN Ppqn
                      ELSE Ppqn * BeatsPerBar
          IN  /\ pending' # << >>
              /\ pending'[1].target = cmd'[2]
              /\ pending'[1].scheduled_tick = ((t \div unit) + 1) * unit]_vars


(***************************************************************************)
(* Quantize and follow action properties.                                  *)
(***************************************************************************)
\* C17: for the phrase length configured on the trigger queue, Phrase
\* ticks_until is the gap from the position to the next multiple of
\* phrase_bars * ticks_per_bar, and 0 on such a multiple.
C17_PhraseUsesPhraseBars ==
    \A timing \in TimingInputs :
        LET phrase_length == phrase_bars * ticks_per_bar(timing)
            into == timing.position_ticks % phrase_length
        IN ticks_until([kind |-> "Phrase", n |-> 0], timing)
               = IF into = 0 THEN 0 ELSE phrase_length - into


\* C18: for total >= 1 and a current index below total, Next resolves to
\* (current + 1) mod total and Previous to (current - 1) mod total.
C18_NextPreviousWrap ==
    (fa_total >= 1 /\ fa_current < fa_total) =>
        /\ fa_action.kind = "Next" => fa_result = (fa_current + 1) % fa_total
        /\ fa_action.kind = "Previous" =>
               fa_result = (fa_current + fa_total - 1) % fa_total

C18_Witness ==
    /\ fa_action.kind = "Previous"
    /\ fa_current = 0
    /\ fa_total = 3
    /\ fa_result = 2



(***************************************************************************)
(* Generator properties.                                                   *)
(***************************************************************************)
\* C19, as claimed: after reset() the drum generator is in the state of a
\* freshly created instance: every parameter get_param reports has the value
\* a new generator reports, and step, bar, tick accumulator and fill flag
\* are those of a new generator.
C19_ResetEqualsFresh ==
    genOp[1] = "reset" =>
        /\ \A name \in ParamNames :
               get_param(config, name) = get_param(DrumConfigDefault, name)
        /\ current_step = DrumPlaybackNew.current_step
        /\ current_bar = DrumPlaybackNew.current_bar
        /\ tick_accumulator = DrumPlaybackNew.tick_accumulator
        /\ in_fill = DrumPlaybackNew.in_fill

\* C19, amended: reset() puts the playback state (step, bar, tick
\* accumulator, fill flag) back to that of a freshly created instance, and
\* every parameter get_param reports keeps the value it had before the
\* reset.
C19_ResetRestoresPlayback ==
    [][genOp'[1] = "reset" =>
           /\ current_step' = DrumPlaybackNew.current_step
           /\ current_bar' = DrumPlaybackNew.current_bar
           /\ tick_accumulator' = DrumPlaybackNew.tick_accumulator
           /\ in_fill' = DrumPlaybackNew.in_fill
           /\ params(config') = params(config)]_vars

\* A reset after a bar and more of playback with a changed style.
C19_Witness ==
    /\ genOp[1] = "reset"
    /\ genOp[2] > 96
    /\ get_param(config, "style") = 40
    /\ current_bar = 0
    /\ tick_accumulator = 0

\* C20: generate_euclidean(hits, steps) of either generator returns a
\* vector of length steps with exactly min(hits, steps) true values.
C20_EuclideanLengthAndHits ==
    /\ Len(eu_pattern) = eu_steps
    /\ count_true(eu_pattern) = Min(eu_hits, eu_steps)
    /\ Len(eu_arp_pattern) = eu_steps
    /\ count_true(eu_arp_pattern) = Min(eu_hits, eu_steps)

\* 5 hits over 8 steps, past the first round of Bjorklund's loop.
C20_Witness ==
    /\ eu_hits = 5
    /\ eu_steps = 8
    /\ count_true(eu_pattern) = 5
    /\ Len(eu_pattern) = 8



(***************************************************************************)
(* Song player properties.                                                 *)
(***************************************************************************)
\* The tick at which section i of the loaded song starts.
SectionStart(i) ==
    to_ticks(at_section(i), Ppqn, player_beats_per_bar, song[1].sections)

\* An update of a looping player, standing in the last section of its loop
\* region with passes left to count, that moves playback past the end of
\* that section.
PassesLoopEnd ==
    /\ songOp'[1] = "update"
    /\ song_mode = "Looping"
    /\ song # << >>
    /\ loop_region # << >>
    /\ loop_region[1].start_section <= loop_region[1].end_section
    /\ loop_region[1].end_section < Len(song[1].sections)
    /\ loop_region[1].repeat_count # None
    /\ loop_region[1].current_repeat < loop_region[1].repeat_count
    /\ current_section = loop_region[1].end_section
    /\ song_position_ticks < SectionStart(loop_region[1].end_section + 1)
    /\ song_position_ticks + songOp'[2]
           >= SectionStart(loop_region[1].end_section + 1)

\* What C25 says of such an update: the repeat counter goes up by one; below
\* the repeat count playback is back at the start of the region's first
\* section, and at the repeat count the mode is Playing and playback is in
\* the section after the region (where the song has one).
LoopPassCounted ==
    LET region == loop_region[1]
    IN  /\ loop_region' # << >>
        /\ IF region.current_repeat + 1 < region.repeat_count
           THEN /\ loop_region'[1].current_repeat = region.current_repeat + 1
                /\ current_section' = region.start_section
                /\ song_position_ticks' = SectionStart(region.start_section)
                /\ song_mode' = "Looping"
           ELSE region.end_section + 1 < Len(song[1].sections) =>
                    /\ loop_region'[1].current_repeat
                           = region.current_repeat + 1
                    /\ song_mode' = "Playing"
                    /\ current_section' = region.end_section + 1

\* C25: with a loop region and a repeat count n, every pass of playback
\* over the end of the region's last section counts one repeat and jumps
\* back to the region's start until n is reached, then the mode is Playing
\* and playback goes on after the region; for every region, also one that
\* ends on the last section of the song.
C25_LoopRegionRepeats == [][PassesLoopEnd => LoopPassCounted]_vars

\* The same for the regions that end before the last section of the song.
LoopBeforeLastSectionRepeats ==
    [][(PassesLoopEnd
        /\ loop_region[1].end_section + 1 < Len(song[1].sections))
           => LoopPassCounted]_vars


\* C26: a seek past the end of a loaded song leaves the player in the last
\* section: goto_section with an index beyond the last section puts the
\* current section and the position there, and a position in ticks at or
\* beyond the length of the song is reported in the last section.
C26_SeekPastEndClamps ==
    [][/\ (/\ songOp'[1] = "goto_section"
           /\ song # << >>
           /\ song[1].sections # << >>
           /\ songOp'[2] >= Len(song[1].sections)) =>
              LET last == Len(song[1].sections) - 1
              IN  /\ current_section' = last
                  /\ position_from_tick(song[1], song_position_ticks',
                                        Ppqn).section = last
       /\ (/\ song # << >>
           /\ song' = song
           /\ song[1].sections # << >>
           /\ song_position_ticks' >= SectionStart(Len(song[1].sections))) =>
              position_from_tick(song[1], song_position_ticks', Ppqn).section
                  = Len(song[1].sections) - 1]_vars


(***************************************************************************)
(* MIDI input properties.                                                  *)
(***************************************************************************)
\* C28 as stated: after start(), the first control change, note on, note off
\* or program change the callback hands to capture is the captured message
\* and learning is off, whatever the control side did in between, until
\* start() is called again.
C28_FirstMessageCaptured ==
    (learn_hist.started /\ learn_hist.first # << >>) =>
        (learn_message = learn_hist.first /\ ~learn_active)

\* C28: after start(), the first control change, note on, note off or
\* program change handed to capture while learning is still on is the
\* captured message and learning goes off; if stop() came before it nothing
\* is captured; no later message replaces either outcome until start() is
\* called again, under every interleaving of the callback's steps with
\* start_learn, stop_learn, get_learned, is_learning and try_recv.
C28_FirstMessageWhileLearning ==
    learn_hist.started =>
        IF learn_hist.first # << >>
        THEN /\ ~learn_active
             /\ learn_message = (IF learn_hist.stopped THEN << >>
                                 ELSE learn_hist.first)
        ELSE /\ learn_message = << >>
             /\ learn_active = ~learn_hist.stopped

\* A control change was captured after start_learn, and a note on that
\* capture saw later was turned away.
C28_Witness ==
    /\ learn_hist.started
    /\ ~learn_hist.stopped
    /\ learn_hist.first = <<Message("ControlChange", 0, 1, 64)>>
    /\ learn_message = learn_hist.first
    /\ learnOp = <<"capture", Message("NoteOn", 0, 60, 100), FALSE>>


(***************************************************************************)
(* MidiClock properties.                                                   *)
(***************************************************************************)
\* C29: continue_playback() after pause() stopped a Running clock leaves the
\* clock Running with the pulse and the beat it had when it was paused, and
\* tick() on a Paused clock returns no pulse and changes no counter.
C29_PauseContinueKeepsPosition ==
    [][/\ (clkOp' = "continue_playback" /\ paused_at' # << >>) =>
              /\ clock_state' = "Running"
              /\ <<pulse', beat'>> = paused_at'
       /\ (clkOp' = "tick" /\ clock_state = "Paused") =>
              /\ emitted' = "None"
              /\ UNCHANGED <<clock_state, pulse, beat, last_tick, ramping>>
      ]_vars

\* A clock paused at pulse 5 of beat 1 was continued and runs from there.
C29_Witness ==
    /\ clkOp = "continue_playback"
    /\ paused_at = <<5, 1>>
    /\ clock_state = "Running"
    /\ pulse = 5
    /\ beat = 1


(***************************************************************************)
(* QuantizeMode properties.                                                *)
(***************************************************************************)
\* C30: QuantizeMode::Bar.ticks_until is 0 when position_ticks is a multiple
\* of ticks_per_bar, and QuantizeMode::Beat.ticks_until is 0 when it is a
\* multiple of ticks_per_beat, whatever the PPQN and the time signature.
C30_ZeroAtBoundary ==
    /\ (/\ quant_ticks # None
        /\ quant_mode.kind = "Bar"
        /\ quant_timing.position_ticks % ticks_per_bar(quant_timing) = 0)
           => quant_ticks = 0
    /\ (/\ quant_ticks # None
        /\ quant_mode.kind = "Beat"
        /\ quant_timing.position_ticks % ticks_per_beat(quant_timing) = 0)
           => quant_ticks = 0

\* Bar asked at tick 60 of a 5/4 timing of 6 PPQN, the start of its third bar.
C30_Witness ==
    /\ quant_mode.kind = "Bar"
    /\ quant_timing = [position_ticks |-> 60, ppqn |-> 6, beats_per_bar |-> 5]
    /\ quant_ticks = 0


(***************************************************************************)
(* Clip properties over clips with static notes.                           *)
(***************************************************************************)
\* The passes <<i, k>> of note i that a forward window of the given length
\* from the clip's position covers: k loop lengths after its start_tick.
CoveredPasses(ticks) ==
    LET le == effective_loop_end
        loop_length == le - loop_start
    IN {ik \in (1..Len(notes)) \X (0..MaxWindowSum) :
            LET s == notes[ik[1]].start_tick + ik[2] * loop_length
            IN /\ notes[ik[1]].start_tick >= loop_start
               /\ notes[ik[1]].start_tick < le
               /\ s >= position
               /\ s < position + ticks}

\* C33: a generate() window of a Sequenced clip in Loop mode, playing forward
\* from a position inside the loop, emits every static note of the loop once
\* for each pass of the loop in which the window covers its start_tick, at
\* its distance from the window's start, and nothing else: over the windows
\* of a run no note is skipped and none is emitted twice.
C33_EveryNoteOncePerPass ==
    [][\A ticks \in ClipWindows :
           (/\ window_sum' = window_sum + ticks
            /\ mode.kind = "Loop"
            /\ state = "Playing"
            /\ ~reverse
            /\ loop_start < effective_loop_end
            /\ position >= loop_start
            /\ position < effective_loop_end
            /\ ~panicked')
           => /\ Len(events') = Cardinality(CoveredPasses(ticks))
              /\ \A ik \in CoveredPasses(ticks) :
                     \E j \in 1..Len(events') :
                         events'[j] =
                             MidiEvent(notes[ik[1]].note, notes[ik[1]].velocity,
                                       notes[ik[1]].start_tick
                                           + ik[2] * (effective_loop_end - loop_start)
                                           - position,
                                       notes[ik[1]].duration)
      ]_vars

\* C34: generate() on a Playing or Stopping clip never fails, whatever loop
\* points set_loop_points accepted, whatever the notes, the mode and the
\* window.
C34_GenerateNeverFails == ~panicked


(***************************************************************************)
(* Drum generator properties over the hits of a run.                       *)
(***************************************************************************)
\* C35: with every voice at probability 1 and no fill played, the hits that
\* consecutive generate() windows returned since new() or reset() are the
\* hits of one window over the same ticks, at the same absolute ticks,
\* however the range was split.
C35_WindowSplitIndependent ==
    LET one_window ==
            drum_events(config, voices, DrumPlaybackNew, 0, tick_accumulator,
                        context_ticks_per_bar(DrumContext)
                            \div config.steps_per_bar, FALSE)
        toms == {gm_drums.HIGH_TOM, gm_drums.MID_TOM, gm_drums.LOW_TOM}
    IN  (/\ drum_run.ok
         /\ \A v \in DOMAIN voices : voices[v].probability = 10
         /\ \A h \in drum_run.hits \cup one_window : h[2] \notin toms)
        => drum_run.hits = one_window


(***************************************************************************)
(* Arrangement properties over removed parts and scenes.                   *)
(***************************************************************************)
\* C36: the arrangement managers hold no dangling reference: current_part
\* and the pending target name parts that exist, current_scene and the
\* pending launch index are below scene_count.
C36_NoDanglingReference ==
    /\ \A k \in 1..Len(current_part) : current_part[k] \in DOMAIN parts
    /\ \A k \in 1..Len(pending) : pending[k].target \in DOMAIN parts
    /\ arr_current_scene # None => arr_current_scene < Len(arr_scenes)
    /\ \A k \in 1..Len(arr_pending) :
           arr_pending[k].scene_index < Len(arr_scenes)


\* The ticks of the loaded song: to_ticks of the position one past its last
\* section.
SongTotalTicks ==
    to_ticks(at_section(Len(song[1].sections)), Ppqn, player_beats_per_bar,
             song[1].sections)

\* A player without a loop region is playing a song with sections at or
\* beyond the end of the last section.
PlayingPastEnd ==
    /\ song # << >>
    /\ song[1].sections # << >>
    /\ song_mode = "Playing"
    /\ loop_region = << >>
    /\ song_position_ticks >= SongTotalTicks

\* C37: a playing SongPlayer without a loop region that update() has moved
\* to or past the end of its last section does not stay there: some time
\* later it is Stopped (or the caller has paused it, given it a loop region
\* or moved it back inside the song).
C37_PastEndStops == PlayingPastEnd ~> (song_mode = "Stopped" \/ ~PlayingPastEnd)

\* update() never stops a player that has no loop region.
UpdateNeverStops ==
    [][(/\ songOp'[1] = "update"
        /\ song_mode # "Stopped"
        /\ loop_region = << >>)
       => song_mode' # "Stopped"]_vars


\* C38: pause() changes the state of the clock only when it is Running: a
\* Stopped clock stays Stopped under pause(), so that continue_playback()
\* after it does not start the clock.
C38_PauseOnlyWhenRunning ==
    [][/\ (clkOp' = "pause" /\ clock_state # "Running") =>
              clock_state' = clock_state
       /\ (clkOp' = "continue_playback" /\ clkOp = "pause"
           /\ paused_at = << >>) => clock_state' # "Running"]_vars


\* The grid of a quantize mode: the beat for Beat and Beats(n), the bar for
\* Bar and Bars(n), the phrase configured on the queue for Phrase.
QuantizeGrid(quantize, timing) ==
    CASE quantize.kind \in {"Beat", "Beats"} -> ticks_per_beat(timing)
      [] quantize.kind \in {"Bar", "Bars"} -> ticks_per_bar(timing)
      [] quantize.kind = "Phrase" -> phrase_bars * ticks_per_bar(timing)

\* C39: for every quantize mode but Immediate and Tick and every position,
\* the trigger tick position + ticks_until is at or after the position and
\* a multiple of the grid of the mode; a Bar trigger queued at position 50
\* is not due at poll(95) and is due at poll(96).
C39_TriggerTickOnGrid ==
    /\ \A timing \in TimingInputs :
           \A quantize \in QuantizeModes :
               quantize.kind \notin {"Immediate", "Tick"} =>
                   LET trigger_tick == timing.position_ticks
                                           + ticks_until(quantize, timing)
                   IN  /\ trigger_tick >= timing.position_ticks
                       /\ trigger_tick % QuantizeGrid(quantize, timing) = 0
    /\ LET timing == [position_ticks |-> 50, ppqn |-> Ppqn,
                      beats_per_bar |-> BeatsPerBar]
           bar == QueuedTrigger(0, 1, 50 + ticks_until(
                                    [kind |-> "Bar", n |-> 0], timing))
       IN  /\ due_prefix(<<bar>>, 95) = 0
           /\ due_prefix(<<bar>>, 96) = 1



(***************************************************************************)
(* MidiRecorder properties.                                                *)
(***************************************************************************)
\* The note the recorder owes for an active note: its start tick counted
\* from start_position.
OwedBy(active, recorded) ==
    /\ recorded.channel = active.channel
    /\ recorded.note = active.note
    /\ recorded.velocity = active.velocity
    /\ recorded.start_tick = active.start_tick - start_position

\* The active notes whose key has been held over a tick().
HeldNotes == {a \in active_notes : <<a.channel, a.note>> \in rec_held}

\* What a step owes the notes held over a tick() of a Recording recorder.
HeldNoteClosed ==
    /\ (/\ recOp'[1] = "note_off"
        /\ rec_state = "Recording"
        /\ active_at(recOp'[2], recOp'[3]) \cap HeldNotes # {}) =>
           /\ Len(rec_notes') = Len(rec_notes) + 1
           /\ \A a \in active_at(recOp'[2], recOp'[3]) :
                  OwedBy(a, rec_notes'[Len(rec_notes')])
    /\ (recOp'[1] = "stop" /\ rec_state = "Recording") =>
           /\ ~rec_failed'
           /\ \A a \in HeldNotes :
                  LET closed == {i \in (Len(rec_notes) + 1)..Len(rec_notes') :
                                     /\ rec_notes'[i].channel = a.channel
                                     /\ rec_notes'[i].note = a.note}
                  IN  /\ Cardinality(closed) = 1
                      /\ \A i \in closed : OwedBy(a, rec_notes'[i])

\* C40: while the recorder is Recording, the note_off of an accepted note
\* held for at least one tick appends exactly one note, starting at the start
\* tick of the note_on less start_position; stop() does not fail and appends
\* exactly one such note for every note held so.
C40_HeldNoteRecordedOnce == [][HeldNoteClosed]_vars

=============================================================================
